---------------------------- MODULE Spec2Model ----------------------------
(***************************************************************************)
(* A model of comptime.ParseDuration (vendored in frobware/haproxytime)    *)
(* and of the values the haproxytime command hands to it.                  *)
(*                                                                         *)
(* time.Duration is an int64 count of nanoseconds.  The model keeps the    *)
(* 64-bit width: an int64 is the sequence of its eight bytes, least        *)
(* significant first, in two's complement, and +, - and * wrap modulo 2^64 *)
(* exactly as Go's do.  The same byte arithmetic at sixteen bytes gives    *)
(* the exact (unbounded) values the claims compare the results with.       *)
(***************************************************************************)
EXTENDS Integers, Sequences, FiniteSets, TLC

(***************************************************************************)
(* Byte-sequence arithmetic.                                               *)
(***************************************************************************)
Byte == 2 ^ 8

\* An int64 occupies 64 / 8 bytes; exact values are kept in twice as many.
Int64Bytes == 64 \div 8
WideBytes == 2 * Int64Bytes

\* The w-byte representation of a small natural n (n < 2^31).
RECURSIVE FromNat(_, _)
FromNat(n, w) ==
    IF w = 0 THEN << >> ELSE << n % Byte >> \o FromNat(n \div Byte, w - 1)

\* a + b + carry over equally long byte sequences, the final carry dropped.
RECURSIVE AddCarry(_, _, _)
AddCarry(a, b, carry) ==
    IF a = << >> THEN << >>
    ELSE LET s == Head(a) + Head(b) + carry
         IN  << s % Byte >> \o AddCarry(Tail(a), Tail(b), s \div Byte)

Add(a, b) == AddCarry(a, b, 0)

\* The bitwise complement, and a - b = a + ~b + 1 modulo 2^(8 * Len(a)).
Complement(a) == [i \in 1..Len(a) |-> (Byte - 1) - a[i]]

Sub(a, b) == AddCarry(a, Complement(b), 1)

\* a * k + carry for a small natural k (k < 2^22), truncated to Len(a) bytes.
RECURSIVE MulSmallCarry(_, _, _)
MulSmallCarry(a, k, carry) ==
    IF a = << >> THEN << >>
    ELSE LET p == Head(a) * k + carry
         IN  << p % Byte >> \o MulSmallCarry(Tail(a), k, p \div Byte)

MulSmall(a, k) == MulSmallCarry(a, k, 0)

\* a * b truncated to Len(a) bytes: b's bytes are taken least significant
\* first, each partial product shifted one byte further.
RECURSIVE Mul(_, _)
Mul(a, b) ==
    IF b = << >> \/ a = << >> THEN [i \in 1..Len(a) |-> 0]
    ELSE LET low  == MulSmall(a, Head(b))
             rest == Mul(SubSeq(a, 1, Len(a) - 1), Tail(b))
         IN  Add(low, << 0 >> \o rest)

\* Unsigned comparison of equally long byte sequences.
RECURSIVE LessU(_, _)
LessU(a, b) ==
    IF a = << >> THEN FALSE
    ELSE LET n == Len(a)
         IN  IF a[n] # b[n] THEN a[n] < b[n]
             ELSE LessU(SubSeq(a, 1, n - 1), SubSeq(b, 1, n - 1))

\* The sign bit of a two's complement value.
IsNegative(a) == a[Len(a)] >= Byte \div 2

\* Signed comparison.
Less(a, b) ==
    IF IsNegative(a) # IsNegative(b) THEN IsNegative(a) ELSE LessU(a, b)

LessEq(a, b) == a = b \/ Less(a, b)

\* Truncating division of a non-negative value by a small natural k
\* (k < 2^22), most significant byte first.
RECURSIVE DivSmallRem(_, _, _)
DivSmallRem(a, k, rem) ==
    IF a = << >> THEN << >>
    ELSE LET n   == Len(a)
             cur == rem * Byte + a[n]
         IN  DivSmallRem(SubSeq(a, 1, n - 1), k, cur % k) \o << cur \div k >>

DivSmall(a, k) == DivSmallRem(a, k, 0)

\* Widening of a non-negative value to w bytes.
Widen(a, w) == a \o [i \in 1..(w - Len(a)) |-> 0]

I64(n) == FromNat(n, Int64Bytes)

Wide(n) == FromNat(n, WideBytes)

\* math.MaxInt64 = 2^63 - 1.
MaxInt64 == [i \in 1..Int64Bytes |-> IF i = Int64Bytes THEN Byte \div 2 - 1 ELSE Byte - 1]


\* Truncating division of a signed value by a small natural, as Go's / does.
Quot(a, k) ==
    IF IsNegative(a)
    THEN Sub(FromNat(0, Len(a)), DivSmall(Sub(FromNat(0, Len(a)), a), k))
    ELSE DivSmall(a, k)

(***************************************************************************)
(* Units, parse modes and the unit table.                                  *)
(***************************************************************************)
Microsecond == 0
Millisecond == 1
Second == 2
Minute == 3
Hour == 4
Day == 5

Units == {Microsecond, Millisecond, Second, Minute, Hour, Day}

ParseModeMultiUnit == 0
ParseModeSingleUnit == 1

ParseModes == {ParseModeMultiUnit, ParseModeSingleUnit}

\* The multipliers of Go's time package, built as that package builds them.
TimeMicrosecond == MulSmall(I64(1), 1000)
TimeMillisecond == MulSmall(TimeMicrosecond, 1000)
TimeSecond == MulSmall(TimeMillisecond, 1000)
TimeMinute == MulSmall(TimeSecond, 60)
TimeHour == MulSmall(TimeMinute, 60)

unitProperties ==
    [u \in Units |->
        CASE u = Microsecond -> TimeMicrosecond
          [] u = Millisecond -> TimeMillisecond
          [] u = Second -> TimeSecond
          [] u = Minute -> TimeMinute
          [] u = Hour -> TimeHour
          [] u = Day -> MulSmall(TimeHour, 24)]

(***************************************************************************)
(* The lexer.  An input is a sequence of one-character strings; Go's       *)
(* 0-based input[i] is the model's At(input, i).                           *)
(***************************************************************************)
At(input, i) == input[i + 1]

Digits == << "0", "1", "2", "3", "4", "5", "6", "7", "8", "9" >>

\* c >= '0' && c <= '9'
IsDigit(c) == \E i \in 1..Len(Digits) : Digits[i] = c

\* int64(c - '0')
DigitOf(c) == (CHOOSE i \in 1..Len(Digits) : Digits[i] = c) - 1

noError == "none"
noNumberFound == "noNumberFound"
overflow == "overflow"

maxInt64Div10 == DivSmall(MaxInt64, 10)

\* A variant of the guard that lets the last digit pass.
DigitOverflowsBeyondLast(value, digit) == Less(maxInt64Div10, value)

\* The guard of consumeNumber before it takes another digit.
DigitOverflows(value, digit) ==
    \/ Less(maxInt64Div10, value)
    \/ (value = maxInt64Div10 /\ digit > 7)

\* The end of the run of digits that starts at `start`: where the loop of
\* consumeNumber stops when no digit overflows.
DigitsEnd(input, start) ==
    CHOOSE p \in start .. Len(input) :
        /\ p = Len(input) \/ ~IsDigit(At(input, p))
        /\ \A q \in start .. p - 1 : IsDigit(At(input, q))

\* The iterations of the loop of consumeNumber over the digits
\* input[lo .. hi - 1], entered with `value`: one iteration is the loop's
\* body, more are the first half followed, unless it overflowed, by the
\* second half.
RECURSIVE consumeDigitsIn(_, _, _, _)
consumeDigitsIn(input, lo, hi, value) ==
    IF hi = lo + 1
    THEN LET digit == DigitOf(At(input, lo))
         IN  IF DigitOverflows(value, digit)
             THEN [value |-> I64(0), pos |-> lo, err |-> overflow]
             ELSE [value |-> Add(MulSmall(value, 10), I64(digit)),
                   pos |-> hi, err |-> noError]
    ELSE LET mid == lo + ((hi - lo) \div 2)
             first == consumeDigitsIn(input, lo, mid, value)
         IN  IF first.err = overflow
             THEN first
             ELSE consumeDigitsIn(input, mid, hi, first.value)

\* The loop of consumeNumber from `position`, `value` accumulated so far.
consumeDigits(input, start, position, value) ==
    IF position < Len(input) /\ IsDigit(At(input, position))
    THEN consumeDigitsIn(input, position, DigitsEnd(input, position), value)
    ELSE IF position = start
         THEN [value |-> I64(0), pos |-> position, err |-> noNumberFound]
         ELSE [value |-> value, pos |-> position, err |-> noError]

\* A variant that takes an empty run of digits for the value zero.
consumeNumberEmptyIsZero(input, start) ==
    LET r == consumeDigits(input, start, start, I64(0))
    IN  IF r.err = noNumberFound THEN [r EXCEPT !.err = noError] ELSE r

\* A variant that passes over one space before the number.
consumeNumberAfterSpace(input, start) ==
    IF start + 1 < Len(input) /\ At(input, start) = " "
    THEN consumeDigits(input, start + 1, start + 1, I64(0))
    ELSE consumeDigits(input, start, start, I64(0))

consumeNumber(input, start) == consumeDigits(input, start, start, I64(0))

\* A variant that tries the one-character symbols first.
consumeUnitSingleFirst(input, start) ==
    CASE At(input, start) = "h" -> [unit |-> Hour, pos |-> start + 1, ok |-> TRUE]
      [] At(input, start) = "m" -> [unit |-> Minute, pos |-> start + 1, ok |-> TRUE]
      [] At(input, start) = "s" -> [unit |-> Second, pos |-> start + 1, ok |-> TRUE]
      [] At(input, start) = "d" -> [unit |-> Day, pos |-> start + 1, ok |-> TRUE]
      [] OTHER ->
            IF Len(input) > start + 1 /\ At(input, start + 1) = "s"
               /\ At(input, start) = "u"
            THEN [unit |-> Microsecond, pos |-> start + 2, ok |-> TRUE]
            ELSE [unit |-> Day, pos |-> start, ok |-> FALSE]

\* Called only with start < Len(input).
consumeUnit(input, start) ==
    IF Len(input) > start + 1 /\ At(input, start + 1) = "s"
       /\ At(input, start) \in {"m", "u"}
    THEN IF At(input, start) = "m"
         THEN [unit |-> Millisecond, pos |-> start + 2, ok |-> TRUE]
         ELSE [unit |-> Microsecond, pos |-> start + 2, ok |-> TRUE]
    ELSE CASE At(input, start) = "h" -> [unit |-> Hour, pos |-> start + 1, ok |-> TRUE]
           [] At(input, start) = "m" -> [unit |-> Minute, pos |-> start + 1, ok |-> TRUE]
           [] At(input, start) = "s" -> [unit |-> Second, pos |-> start + 1, ok |-> TRUE]
           [] At(input, start) = "d" -> [unit |-> Day, pos |-> start + 1, ok |-> TRUE]
           [] OTHER -> [unit |-> Day, pos |-> start, ok |-> FALSE]

(***************************************************************************)
(* Errors: the three error types with their 0-based position.              *)
(***************************************************************************)
nil == [kind |-> "nil", cause |-> "none", position |-> 0]

newOverflowError(position) ==
    [kind |-> "OverflowError", cause |-> "none", position |-> position]

newRangeError(position) ==
    [kind |-> "RangeError", cause |-> "none", position |-> position]

newSyntaxErrorInvalidNumber(position) ==
    [kind |-> "SyntaxError", cause |-> "InvalidNumber", position |-> position]

\* A variant that reports the unrecognised symbol as InvalidNumber.
newSyntaxErrorInvalidUnitAsNumber(position) ==
    [kind |-> "SyntaxError", cause |-> "InvalidNumber", position |-> position]

newSyntaxErrorInvalidUnit(position) ==
    [kind |-> "SyntaxError", cause |-> "InvalidUnit", position |-> position]

newSyntaxErrorInvalidUnitOrder(position) ==
    [kind |-> "SyntaxError", cause |-> "InvalidUnitOrder", position |-> position]

newSyntaxErrorUnexpectedCharactersInSingleUnitMode(position) ==
    [kind |-> "SyntaxError", cause |-> "UnexpectedCharactersInSingleUnitMode",
     position |-> position]

(***************************************************************************)
(* Range checkers: the callbacks the repository passes to ParseDuration.   *)
(***************************************************************************)
\* haproxytime's limit: 2147483647 * time.Millisecond.
maxTimeout == Mul(I64(2147483647), TimeMillisecond)

\* time.Duration.Milliseconds: the nanoseconds divided by 1e6.
Milliseconds(d) == Quot(d, 1000000)

\* NoRangeChecking: always true.
NoRangeChecking(position, val, totalSoFar) == TRUE

\* The checker of the tests that returns false whatever it is given.
rejectAll(position, val, totalSoFar) == FALSE

\* The checker of the tests: total.Milliseconds() < 2147483647.
totalBelowMaxMs(position, val, totalSoFar) ==
    Less(Milliseconds(totalSoFar), I64(2147483647))

\* The checker of the haproxytime command: value+totalSoFar <= maxTimeout.
withinMaxTimeout(position, val, totalSoFar) ==
    LessEq(Add(val, totalSoFar), maxTimeout)

\* The values of the inRangeChecker argument: nil, or one of the above.
RangeCheckers ==
    {"nil", "NoRangeChecking", "rejectAll", "totalBelowMaxMs", "withinMaxTimeout"}

\* inRangeChecker(position, value, totalSoFar), for a checker that is not nil.
InRange(inRangeChecker, position, val, totalSoFar) ==
    CASE inRangeChecker = "NoRangeChecking" ->
            NoRangeChecking(position, val, totalSoFar)
      [] inRangeChecker = "rejectAll" -> rejectAll(position, val, totalSoFar)
      [] inRangeChecker = "totalBelowMaxMs" ->
            totalBelowMaxMs(position, val, totalSoFar)
      [] inRangeChecker = "withinMaxTimeout" ->
            withinMaxTimeout(position, val, totalSoFar)

(***************************************************************************)
(* One iteration of ParseDuration's loop, check by check.                  *)
(***************************************************************************)
\* A variant of the order check that lets a unit repeat.
UnitOutOfOrderAllowingRepeat(position, unit, prevUnit) ==
    position > 0 /\ unit > prevUnit

\* position > 0 && unit >= prevUnit
UnitOutOfOrder(position, unit, prevUnit) == position > 0 /\ unit >= prevUnit

\* time.Duration(value) * unitProperties[unit].duration, an int64 product.
Composite(val, unit) == Mul(val, unitProperties[unit])

\* A variant that tests the sign of the product and not the sum.
OverflowsSignOnly(compositeDuration, totalDuration) ==
    IsNegative(compositeDuration)

\* compositeDuration < 0 || totalDuration > (math.MaxInt64 - compositeDuration)
Overflows(compositeDuration, totalDuration) ==
    \/ IsNegative(compositeDuration)
    \/ Less(Sub(MaxInt64, compositeDuration), totalDuration)

\* A variant that disregards the checker's answer for the first component.
CheckerRejectsAfterFirst(inRangeChecker, position, compositeDuration, totalDuration) ==
    /\ inRangeChecker # "nil"
    /\ position > 0
    /\ ~InRange(inRangeChecker, position, compositeDuration, totalDuration)

\* inRangeChecker != nil && !inRangeChecker(position, compositeDuration, totalDuration)
CheckerRejects(inRangeChecker, position, compositeDuration, totalDuration) ==
    /\ inRangeChecker # "nil"
    /\ ~InRange(inRangeChecker, position, compositeDuration, totalDuration)

\* A variant that keeps the end of the unit whatever the number's end is.
maxIsFirst(a, b) == a

max(a, b) == IF a > b THEN a ELSE b

\* A variant of the loop condition that is off by one.
LoopConditionOffByOne(position, input) == position <= Len(input)

\* for position < len(input)
LoopCondition(position, input) == position < Len(input)

\* A variant that takes milliseconds, not the caller's default unit.
LexUnitFixedDefault(input, unitStartPos, defaultUnit) ==
    IF unitStartPos < Len(input)
    THEN consumeUnit(input, unitStartPos)
    ELSE [unit |-> Millisecond, pos |-> 0, ok |-> TRUE]

\* The unit of the component: the default unit, unless input remains after
\* the number, and then what consumeUnit finds there.
LexUnit(input, unitStartPos, defaultUnit) ==
    IF unitStartPos < Len(input)
    THEN consumeUnit(input, unitStartPos)
    ELSE [unit |-> defaultUnit, pos |-> 0, ok |-> TRUE]

\* A variant that misses a single trailing character.
TrailingInSingleUnitModeOffByOne(parseMode, position, input) ==
    parseMode = ParseModeSingleUnit /\ position + 1 < Len(input)

\* parseMode == ParseModeSingleUnit && position < len(input)
TrailingInSingleUnitMode(parseMode, position, input) ==
    parseMode = ParseModeSingleUnit /\ position < Len(input)

\* A variant of the loop body that tests for overflow before the unit's order.
IterationOverflowFirst(input, defaultUnit, parseMode, inRangeChecker, position, totalDuration, prevUnit) ==
    LET numStartPos == position
        num == consumeNumber(input, numStartPos)
        unitStartPos == num.pos
        lexed == LexUnit(input, unitStartPos, defaultUnit)
        compositeDuration == Composite(num.value, lexed.unit)
        newPosition == max(lexed.pos, num.pos)
        base == [pc |-> "loop", err |-> nil, position |-> position,
                 totalDuration |-> totalDuration, prevUnit |-> prevUnit,
                 numStartPos |-> numStartPos, value |-> num.value,
                 numEndPos |-> num.pos, unit |-> defaultUnit,
                 unitStartPos |-> unitStartPos, unitEndPos |-> 0,
                 compositeDuration |-> I64(0), invoked |-> << >>]
        lexedLocals == [base EXCEPT !.unit = lexed.unit, !.unitEndPos = lexed.pos]
        ordered == [lexedLocals EXCEPT !.prevUnit = lexed.unit,
                                       !.compositeDuration = compositeDuration]
        checked == IF inRangeChecker = "nil" THEN ordered
                   ELSE [ordered EXCEPT !.invoked =
                            << [position |-> position,
                                value |-> compositeDuration,
                                totalSoFar |-> totalDuration,
                                result |-> InRange(inRangeChecker, position,
                                                   compositeDuration,
                                                   totalDuration)] >>]
        added == [checked EXCEPT
                     !.totalDuration = Add(totalDuration, compositeDuration),
                     !.position = newPosition]
    IN  IF num.err = noNumberFound
        THEN [base EXCEPT !.pc = "L499",
                          !.err = newSyntaxErrorInvalidNumber(numStartPos)]
        ELSE IF num.err = overflow
        THEN [base EXCEPT !.pc = "L501", !.err = newOverflowError(numStartPos)]
        ELSE IF ~lexed.ok
        THEN [lexedLocals EXCEPT
                 !.pc = "L512", !.err = newSyntaxErrorInvalidUnit(unitStartPos)]
        ELSE IF Overflows(compositeDuration, totalDuration)
        THEN [ordered EXCEPT !.pc = "L523", !.err = newOverflowError(numStartPos)]
        ELSE IF UnitOutOfOrder(position, lexed.unit, prevUnit)
        THEN [lexedLocals EXCEPT
                 !.pc = "L517",
                 !.err = newSyntaxErrorInvalidUnitOrder(unitStartPos)]
        ELSE IF CheckerRejects(inRangeChecker, position, compositeDuration,
                               totalDuration)
        THEN [checked EXCEPT !.pc = "L527", !.err = newRangeError(numStartPos)]
        ELSE IF TrailingInSingleUnitMode(parseMode, newPosition, input)
        THEN [added EXCEPT
                 !.pc = "L542",
                 !.err = newSyntaxErrorUnexpectedCharactersInSingleUnitMode(newPosition)]
        ELSE added

\* The loop body from the state (position, totalDuration, prevUnit): the
\* return statement it ends at ("loop" when it ends at the loop's head) with
\* the error returned there, the locals as it leaves them and the checker
\* invocations it made.
Iteration(input, defaultUnit, parseMode, inRangeChecker, position, totalDuration, prevUnit) ==
    LET numStartPos == position
        num == consumeNumber(input, numStartPos)
        unitStartPos == num.pos
        lexed == LexUnit(input, unitStartPos, defaultUnit)
        compositeDuration == Composite(num.value, lexed.unit)
        newPosition == max(lexed.pos, num.pos)
        base == [pc |-> "loop", err |-> nil, position |-> position,
                 totalDuration |-> totalDuration, prevUnit |-> prevUnit,
                 numStartPos |-> numStartPos, value |-> num.value,
                 numEndPos |-> num.pos, unit |-> defaultUnit,
                 unitStartPos |-> unitStartPos, unitEndPos |-> 0,
                 compositeDuration |-> I64(0), invoked |-> << >>]
        lexedLocals == [base EXCEPT !.unit = lexed.unit, !.unitEndPos = lexed.pos]
        ordered == [lexedLocals EXCEPT !.prevUnit = lexed.unit,
                                       !.compositeDuration = compositeDuration]
        checked == IF inRangeChecker = "nil" THEN ordered
                   ELSE [ordered EXCEPT !.invoked =
                            << [position |-> position,
                                value |-> compositeDuration,
                                totalSoFar |-> totalDuration,
                                result |-> InRange(inRangeChecker, position,
                                                   compositeDuration,
                                                   totalDuration)] >>]
        added == [checked EXCEPT
                     !.totalDuration = Add(totalDuration, compositeDuration),
                     !.position = newPosition]
    IN  IF num.err = noNumberFound
        THEN [base EXCEPT !.pc = "L499",
                          !.err = newSyntaxErrorInvalidNumber(numStartPos)]
        ELSE IF num.err = overflow
        THEN [base EXCEPT !.pc = "L501", !.err = newOverflowError(numStartPos)]
        ELSE IF ~lexed.ok
        THEN [lexedLocals EXCEPT
                 !.pc = "L512", !.err = newSyntaxErrorInvalidUnit(unitStartPos)]
        ELSE IF UnitOutOfOrder(position, lexed.unit, prevUnit)
        THEN [lexedLocals EXCEPT
                 !.pc = "L517",
                 !.err = newSyntaxErrorInvalidUnitOrder(unitStartPos)]
        ELSE IF Overflows(compositeDuration, totalDuration)
        THEN [ordered EXCEPT !.pc = "L523", !.err = newOverflowError(numStartPos)]
        ELSE IF CheckerRejects(inRangeChecker, position, compositeDuration,
                               totalDuration)
        THEN [checked EXCEPT !.pc = "L527", !.err = newRangeError(numStartPos)]
        ELSE IF TrailingInSingleUnitMode(parseMode, newPosition, input)
        THEN [added EXCEPT
                 !.pc = "L542",
                 !.err = newSyntaxErrorUnexpectedCharactersInSingleUnitMode(newPosition)]
        ELSE added

(***************************************************************************)
(* The inputs the model hands to ParseDuration.                            *)
(***************************************************************************)
\* The decimal numeral with the given digits.
Numeral(ds) == [i \in 1..Len(ds) |-> Digits[ds[i] + 1]]

\* The symbol consumeUnit recognises for each unit.
Symbol ==
    [u \in Units |->
        CASE u = Microsecond -> << "u", "s" >>
          [] u = Millisecond -> << "m", "s" >>
          [] u = Second -> << "s" >>
          [] u = Minute -> << "m" >>
          [] u = Hour -> << "h" >>
          [] u = Day -> << "d" >>]

\* The largest value of each unit that fits a time.Duration: MaxInt64 / multiplier.
MaxValueDigits ==
    [u \in Units |->
        CASE u = Microsecond -> << 9, 2, 2, 3, 3, 7, 2, 0, 3, 6, 8, 5, 4, 7, 7, 5 >>
          [] u = Millisecond -> << 9, 2, 2, 3, 3, 7, 2, 0, 3, 6, 8, 5, 4 >>
          [] u = Second -> << 9, 2, 2, 3, 3, 7, 2, 0, 3, 6 >>
          [] u = Minute -> << 1, 5, 3, 7, 2, 2, 8, 6, 7 >>
          [] u = Hour -> << 2, 5, 6, 2, 0, 4, 7 >>
          [] u = Day -> << 1, 0, 6, 7, 5, 1 >>]

\* The smallest value of each unit whose product with the multiplier reaches 2^64.
WrapValueDigits ==
    [u \in Units |->
        CASE u = Microsecond -> << 1, 8, 4, 4, 6, 7, 4, 4, 0, 7, 3, 7, 0, 9, 5, 5, 2 >>
          [] u = Millisecond -> << 1, 8, 4, 4, 6, 7, 4, 4, 0, 7, 3, 7, 1, 0 >>
          [] u = Second -> << 1, 8, 4, 4, 6, 7, 4, 4, 0, 7, 4 >>
          [] u = Minute -> << 3, 0, 7, 4, 4, 5, 7, 3, 5 >>
          [] u = Hour -> << 5, 1, 2, 4, 0, 9, 6 >>
          [] u = Day -> << 2, 1, 3, 5, 0, 4 >>]

\* ds + 1 in decimal.
RECURSIVE Succ(_)
Succ(ds) ==
    IF ds = << >> THEN << 1 >>
    ELSE LET n == Len(ds)
         IN  IF ds[n] < 9 THEN [ds EXCEPT ![n] = @ + 1]
             ELSE Succ(SubSeq(ds, 1, n - 1)) \o << 0 >>

\* math.MaxInt64 in decimal, and 2^64.
MaxInt64Digits == << 9, 2, 2, 3, 3, 7, 2, 0, 3, 6, 8, 5, 4, 7, 7, 5, 8, 0, 7 >>
TwoTo64Digits == << 1, 8, 4, 4, 6, 7, 4, 4, 0, 7, 3, 7, 0, 9, 5, 5, 1, 6, 1, 6 >>

\* The inputs of the repository's tests and of its documentation, and a few
\* of the same kind.
TestInputs ==
    {
      \* "1d3h30m45s100ms200us" (duration_parser_test.go: every unit)
      << "1", "d", "3", "h", "3", "0", "m", "4", "5", "s", "1", "0", "0", "m", "s", "2", "0", "0", "u", "s" >>,
      \* "1d100us" (duration_parser_test.go: skipped units)
      << "1", "d", "1", "0", "0", "u", "s" >>,
      \* "0d0h0m0s1" (duration_parser_test.go: trailing number without a unit)
      << "0", "d", "0", "h", "0", "m", "0", "s", "1" >>,
      \* "5000" (duration_parser_test.go: a number without a unit)
      << "5", "0", "0", "0" >>,
      \* "106751d5h59m59s854ms775us" (the largest value using mixed units (microsecond default))
      << "1", "0", "6", "7", "5", "1", "d", "5", "h", "5", "9", "m", "5", "9", "s", "8", "5", "4", "m", "s", "7", "7", "5", "u", "s" >>,
      \* "106751d23h47m16s854ms984us" (overflow with all units)
      << "1", "0", "6", "7", "5", "1", "d", "2", "3", "h", "4", "7", "m", "1", "6", "s", "8", "5", "4", "m", "s", "9", "8", "4", "u", "s" >>,
      \* "9223372036854775808ns" (TestOverflowError_Error)
      << "9", "2", "2", "3", "3", "7", "2", "0", "3", "6", "8", "5", "4", "7", "7", "5", "8", "0", "8", "n", "s" >>,
      \* "24d20h31m23s647ms1000us" (TestParseDurationRangeErrors)
      << "2", "4", "d", "2", "0", "h", "3", "1", "m", "2", "3", "s", "6", "4", "7", "m", "s", "1", "0", "0", "0", "u", "s" >>,
      \* "24d20h31m23s646ms1000us" (haproxytimeout_test.go: the largest timeout)
      << "2", "4", "d", "2", "0", "h", "3", "1", "m", "2", "3", "s", "6", "4", "6", "m", "s", "1", "0", "0", "0", "u", "s" >>,
      \* "1h1x" (TestSyntaxError_Error)
      << "1", "h", "1", "x" >>,
      \* "xx1h" (TestSyntaxError_Error)
      << "x", "x", "1", "h" >>,
      \* "1h1m1h" (TestSyntaxError_Error)
      << "1", "h", "1", "m", "1", "h" >>,
      \* "2d30m1Y" (TestParseDurationSyntaxErrors)
      << "2", "d", "3", "0", "m", "1", "Y" >>,
      \* "100.d" (TestParseDurationSyntaxErrors)
      << "1", "0", "0", ".", "d" >>,
      \* "1d 5m 1h" (TestParseDurationSyntaxErrors)
      << "1", "d", " ", "5", "m", " ", "1", "h" >>,
      \* "1d30mX" (TestParseDurationSyntaxErrors)
      << "1", "d", "3", "0", "m", "X" >>,
      \* "-1d" (a sign)
      << "-", "1", "d" >>,
      \* "1ms5" (a trailing number that takes the default unit)
      << "1", "m", "s", "5" >>,
      \* "500us" (below one millisecond)
      << "5", "0", "0", "u", "s" >>,
      \* "1u" (a unit symbol cut short)
      << "1", "u" >>,
      \* "1d9223372036854775808h" (a second number beyond int64)
      << "1", "d", "9", "2", "2", "3", "3", "7", "2", "0", "3", "6", "8",
         "5", "4", "7", "7", "5", "8", "0", "8", "h" >>,
      \* "+0", " " and "1 d" (a sign and spaces)
      << "+", "0" >>,
      << " " >>,
      << "1", " ", "d" >>,
      \* "25d106752d" (a unit out of order on a value beyond int64 in days)
      << "2", "5", "d", "1", "0", "6", "7", "5", "2", "d" >>
    }

\* What may follow a numeral: nothing, a unit symbol, or an unknown character.
Suffixes == {<< >>} \cup {Symbol[u] : u \in Units} \cup {<< "M" >>}

\* The pieces generated inputs are concatenated from: a number and what
\* follows it, or a character with no number before it.
Tokens == {Numeral(<< 1 >>) \o sfx : sfx \in Suffixes} \cup {<< "M" >>, << "s" >>}

\* The number of tokens of a generated input.
MaxComponents == 2

RECURSIVE Concatenations(_)
Concatenations(k) ==
    IF k = 0 THEN {<< >>}
    ELSE LET shorter == Concatenations(k - 1)
         IN  shorter \cup {p \o t : p \in shorter, t \in Tokens}

GeneratedInputs == Concatenations(MaxComponents)

\* The numerals at the edges of the int64 range.
BoundaryNumerals ==
    UNION {{MaxValueDigits[u], Succ(MaxValueDigits[u]), WrapValueDigits[u]} : u \in Units}
    \cup {MaxInt64Digits, Succ(MaxInt64Digits), TwoTo64Digits}

\* One boundary numeral under every unit, and after a first component that
\* leaves room for it or does not.
BoundaryInputs ==
    {Numeral(n) \o sfx : n \in BoundaryNumerals, sfx \in Suffixes \ {<< "M" >>}}
    \cup UNION {{Numeral(first) \o Symbol[Day] \o Numeral(n) \o Symbol[u] :
                    first \in {<< 1 >>, MaxValueDigits[Day]},
                    n \in {<< 2, 3 >>, << 2, 4 >>, MaxValueDigits[u],
                           Succ(MaxValueDigits[u]), WrapValueDigits[u]}} :
                u \in Units \ {Day}}

Inputs == TestInputs \cup GeneratedInputs \cup BoundaryInputs

(***************************************************************************)
(* Exact values, for comparison with what the code computes: the same      *)
(* arithmetic at twice the width, where nothing the model reaches wraps.   *)
(***************************************************************************)
WideOf(a) == Widen(a, WideBytes)

WideMaxInt64 == WideOf(MaxInt64)

\* The nanoseconds in one of each unit, as a product of small factors:
\* a millisecond is 1000000 ns, an hour 3600000 ms, a day 24 hours.
NanosecondFactors ==
    [u \in Units |->
        CASE u = Microsecond -> << 1000 >>
          [] u = Millisecond -> << 1000000 >>
          [] u = Second -> << 1000000, 1000 >>
          [] u = Minute -> << 1000000, 60000 >>
          [] u = Hour -> << 1000000, 3600000 >>
          [] u = Day -> << 1000000, 3600000, 24 >>]

\* a times every factor of fs.
RECURSIVE MulFactors(_, _)
MulFactors(a, fs) ==
    IF fs = << >> THEN a ELSE MulFactors(MulSmall(a, Head(fs)), Tail(fs))

\* The number that the digits among input[from .. to - 1] denote.
\* acc extended by the digits among input[from .. to - 1]: by one character,
\* or by the first half and then, from its value, by the second half.
RECURSIVE WideDigitsIn(_, _, _, _)
WideDigitsIn(input, from, to, acc) ==
    IF to <= from THEN acc
    ELSE IF to = from + 1
    THEN IF ~IsDigit(At(input, from)) THEN acc
         ELSE Add(MulSmall(acc, 10), Wide(DigitOf(At(input, from))))
    ELSE LET mid == from + ((to - from) \div 2)
             first == WideDigitsIn(input, from, mid, acc)
         IN  IF Len(first) = WideBytes
             THEN WideDigitsIn(input, mid, to, first)
             ELSE first

WideNumeral(input, from, to) == WideDigitsIn(input, from, to, Wide(0))

\* The exact duration of the component input[from .. to - 1] in unit u.
ExactComponent(input, from, to, u) ==
    MulFactors(WideNumeral(input, from, to), NanosecondFactors[u])

(***************************************************************************)
(* ParseDuration as a function of its arguments: the loop run from         *)
(* (position, totalDuration, prevUnit) to its return.                      *)
(***************************************************************************)
RECURSIVE ParseFrom(_, _, _, _, _, _, _)
ParseFrom(input, defaultUnit, parseMode, inRangeChecker, position, totalDuration, prevUnit) ==
    IF ~LoopCondition(position, input)
    THEN [duration |-> totalDuration, err |-> nil]
    ELSE LET it == Iteration(input, defaultUnit, parseMode, inRangeChecker,
                             position, totalDuration, prevUnit)
         IN  IF it.pc = "loop"
             THEN ParseFrom(input, defaultUnit, parseMode, inRangeChecker,
                            it.position, it.totalDuration, it.prevUnit)
             ELSE [duration |-> I64(0), err |-> it.err]

ParseDuration(input, defaultUnit, parseMode, inRangeChecker) ==
    ParseFrom(input, defaultUnit, parseMode, inRangeChecker, 0, I64(0), Day)

(***************************************************************************)
(* haproxytime.go: formatDuration.                                         *)
(***************************************************************************)
\* a / (the product of fs), by one truncating division for each factor.
RECURSIVE QuotFactors(_, _)
QuotFactors(a, fs) ==
    IF fs = << >> THEN a ELSE QuotFactors(Quot(a, Head(fs)), Tail(fs))

\* duration / u for a unit u, as in `days := duration / Day`.
DurationQuot(d, u) == QuotFactors(d, NanosecondFactors[u])

\* duration -= n * u
DurationLess(d, n, u) == Sub(d, Mul(n, unitProperties[u]))

\* fmt.Sprintf("%d", n) for n >= 0.
RECURSIVE Sprintf(_)
Sprintf(n) ==
    LET q == DivSmall(n, 10)
        r == Sub(n, MulSmall(q, 10))[1]
    IN  IF q = I64(0) THEN << Digits[r + 1] >>
        ELSE Sprintf(q) \o << Digits[r + 1] >>

\* if n > 0 { result += fmt.Sprintf("%d<symbol>", n) }
FormatPart(n, symbol) ==
    IF Less(I64(0), n) THEN Sprintf(n) \o symbol ELSE << >>

formatDuration(d) ==
    IF d = I64(0) THEN << "0", "m", "s" >>
    ELSE LET days == DurationQuot(d, Day)
             d1 == DurationLess(d, days, Day)
             hours == DurationQuot(d1, Hour)
             d2 == DurationLess(d1, hours, Hour)
             minutes == DurationQuot(d2, Minute)
             d3 == DurationLess(d2, minutes, Minute)
             seconds == DurationQuot(d3, Second)
             d4 == DurationLess(d3, seconds, Second)
             milliseconds == DurationQuot(d4, Millisecond)
         IN  FormatPart(days, << "d" >>) \o FormatPart(hours, << "h" >>)
                \o FormatPart(minutes, << "m" >>)
                \o FormatPart(seconds, << "s" >>)
                \o FormatPart(milliseconds, << "m", "s" >>)

(***************************************************************************)
(* The text of the errors, and what the command reads and writes.  A line  *)
(* of output is a string.                                                  *)
(***************************************************************************)
\* The string of a sequence of characters.
RECURSIVE String(_)
String(chars) ==
    IF chars = << >> THEN "" ELSE Head(chars) \o String(Tail(chars))

\* The switch of SyntaxError.Error.
CauseText(cause) ==
    CASE cause = "InvalidNumber" -> "invalid number"
      [] cause = "InvalidUnit" -> "invalid unit"
      [] cause = "InvalidUnitOrder" -> "invalid unit order"
      [] cause = "UnexpectedCharactersInSingleUnitMode"
            -> "unexpected characters in single unit mode"

\* Position() of the three error types.
Position(e) == e.position

\* A variant that renders the position as Position() returns it.
ErrorZeroBased(e) ==
    CASE e.kind = "SyntaxError"
            -> "syntax error at position " \o ToString(e.position) \o ": "
                  \o CauseText(e.cause)
      [] e.kind = "OverflowError"
            -> "overflow error at position " \o ToString(e.position)
      [] e.kind = "RangeError"
            -> "range error at position " \o ToString(e.position)

\* Error() of the three error types.
Error(e) ==
    CASE e.kind = "SyntaxError"
            -> "syntax error at position " \o ToString(e.position + 1)
                  \o ": " \o CauseText(e.cause)
      [] e.kind = "OverflowError"
            -> "overflow error at position " \o ToString(e.position + 1)
      [] e.kind = "RangeError"
            -> "range error at position " \o ToString(e.position + 1)

\* fmt.Sprintf("%" + fmt.Sprint(width) + "s", ""): the empty string padded
\* to the width; for width 0 the verb is "%0s", a flag and no width.
RECURSIVE Padding(_)
Padding(width) == IF width = 0 THEN "" ELSE " " \o Padding(width - 1)

\* A variant that pads by the position as the message shows it.
printErrorWithPositionOneBased(input, err, position) ==
    << Error(err), String(input), Padding(position + 1) \o "^" >>

\* The lines that printErrorWithPosition writes.
printErrorWithPosition(input, err, position) ==
    << Error(err), String(input), Padding(position) \o "^" >>

\* The lines that printPositionalError writes for the three error types.
printPositionalError(err, arg) ==
    printErrorWithPosition(arg, err, Position(err))

\* The line that output writes.
output(duration, printHuman) ==
    IF printHuman
    THEN String(formatDuration(duration))
    ELSE String(Sprintf(Milliseconds(duration))) \o "ms"

\* The cap on what is read from standard input (the call of readInput).
maxBytes == 256

\* io.ReadAll(io.LimitReader(rdr, maxBytes)): the first maxBytes bytes.
LimitReader(rdr, n) == SubSeq(rdr, 1, IF Len(rdr) < n THEN Len(rdr) ELSE n)

\* strings.TrimRight(s, "\n")
RECURSIVE TrimRight(_)
TrimRight(s) ==
    IF s # << >> /\ s[Len(s)] = "\n"
    THEN TrimRight(SubSeq(s, 1, Len(s) - 1))
    ELSE s

readAll(rdr, n) == TrimRight(LimitReader(rdr, n))

readInput(rdr, remainingArgs, n) ==
    IF Len(remainingArgs) > 0 THEN remainingArgs[1] ELSE readAll(rdr, n)

(***************************************************************************)
(* README.md: the earlier ParseDuration(input, defaultUnit, parseMode),    *)
(* which parses each number as a 32-bit integer and has the limit of       *)
(* MaxTimeout built in.  Its units are numbered from UnitDay = 1 to        *)
(* UnitMicrosecond = 6, and 0 is no unit.                                  *)
(***************************************************************************)
UnitDay == 1
UnitHour == 2
UnitMinute == 3
UnitSecond == 4
UnitMillisecond == 5
UnitMicrosecond == 6

ReadmeUnits == UnitDay .. UnitMicrosecond

\* MaxTimeout = 2147483647 * time.Millisecond
MaxTimeout == Mul(I64(2147483647), TimeMillisecond)

\* The map unitProperties of README.md.
ReadmeUnitProperties ==
    [n \in ReadmeUnits |->
        CASE n = UnitDay -> [symbol |-> << "d" >>, duration |-> MulSmall(TimeHour, 24)]
          [] n = UnitHour -> [symbol |-> << "h" >>, duration |-> TimeHour]
          [] n = UnitMinute -> [symbol |-> << "m" >>, duration |-> TimeMinute]
          [] n = UnitSecond -> [symbol |-> << "s" >>, duration |-> TimeSecond]
          [] n = UnitMillisecond -> [symbol |-> << "m", "s" >>, duration |-> TimeMillisecond]
          [] n = UnitMicrosecond -> [symbol |-> << "u", "s" >>, duration |-> TimeMicrosecond]]

\* unit, ok := symbolToUnit[unitStr]: the unit's number, 0 when there is none.
symbolToUnit(unitStr) ==
    IF \E n \in ReadmeUnits : ReadmeUnitProperties[n].symbol = unitStr
    THEN CHOOSE n \in ReadmeUnits : ReadmeUnitProperties[n].symbol = unitStr
    ELSE 0

\* strings.HasPrefix(input[current:], symbol)
HasPrefix(input, current, symbol) ==
    /\ current + Len(symbol) <= Len(input)
    /\ SubSeq(input, current + 1, current + Len(symbol)) = symbol

\* consumeUnit of README.md: "ms" or "us", else the one character at start.
ReadmeConsumeUnit(input, start) ==
    IF HasPrefix(input, start, << "m", "s" >>)
    THEN [str |-> << "m", "s" >>, pos |-> start + 2]
    ELSE IF HasPrefix(input, start, << "u", "s" >>)
    THEN [str |-> << "u", "s" >>, pos |-> start + 2]
    ELSE [str |-> << At(input, start) >>, pos |-> start + 1]

\* consumeNumber of README.md: the run of digits at start, as a string.
ReadmeConsumeNumber(input, start) ==
    [str |-> SubSeq(input, start + 1, DigitsEnd(input, start)),
     pos |-> DigitsEnd(input, start)]

\* 2^31 - 1, the largest value of strconv.ParseInt(s, 10, 32).
MaxInt32 == I64(2147483647)

\* strconv.ParseInt(numberStr, 10, 32) of a non-empty string of digits: its
\* value, or an error when the value is above 2^31 - 1.
ParseInt(numberStr) ==
    LET num == consumeNumber(numberStr, 0)
    IN  IF num.err # noError \/ Less(MaxInt32, num.value)
        THEN [value |-> I64(0), ok |-> FALSE]
        ELSE [value |-> num.value, ok |-> TRUE]

\* The loop body of README.md's ParseDuration from (position, newTotal,
\* prevUnit): the line of the return it ends at ("loop" for the loop's head),
\* the error returned there and the locals as it leaves them.
ReadmeIteration(input, defaultUnit, parseMode, position, newTotal, prevUnit) ==
    LET numberPosition == position
        number == ReadmeConsumeNumber(input, position)
        parsed == ParseInt(number.str)
        unitPosition == number.pos
        unitLexed == IF number.pos < Len(input)
                     THEN ReadmeConsumeUnit(input, number.pos)
                     ELSE [str |-> ReadmeUnitProperties[defaultUnit].symbol,
                           pos |-> number.pos]
        unit == symbolToUnit(unitLexed.str)
        segmentDuration == Mul(parsed.value, ReadmeUnitProperties[unit].duration)
        base == [pc |-> "loop", err |-> nil, position |-> number.pos,
                 newTotal |-> newTotal, prevUnit |-> prevUnit,
                 numberPosition |-> numberPosition, value |-> parsed.value,
                 numberEnd |-> number.pos, unitPosition |-> unitPosition,
                 unit |-> 0, segmentDuration |-> I64(0)]
        lexed == [base EXCEPT !.position = unitLexed.pos, !.unit = unit]
    IN  IF number.str = << >>
        THEN [base EXCEPT !.pc = "R459",
                          !.err = newSyntaxErrorInvalidNumber(numberPosition)]
        ELSE IF ~parsed.ok
        THEN [base EXCEPT !.pc = "R464", !.err = newOverflowError(numberPosition)]
        ELSE IF unit = 0
        THEN [lexed EXCEPT !.pc = "R478",
                           !.err = newSyntaxErrorInvalidUnit(unitPosition)]
        ELSE IF prevUnit # 0 /\ unit <= prevUnit
        THEN [lexed EXCEPT !.pc = "R482",
                           !.err = newSyntaxErrorInvalidUnitOrder(unitPosition)]
        ELSE IF Less(Sub(MaxTimeout, segmentDuration), newTotal)
        THEN [lexed EXCEPT !.pc = "R487",
                           !.segmentDuration = segmentDuration,
                           !.err = newOverflowError(numberPosition)]
        ELSE IF parseMode = ParseModeSingleUnit /\ unitLexed.pos < Len(input)
        THEN [lexed EXCEPT
                 !.pc = "R494",
                 !.segmentDuration = segmentDuration,
                 !.newTotal = Add(newTotal, segmentDuration),
                 !.prevUnit = unit,
                 !.err = newSyntaxErrorUnexpectedCharactersInSingleUnitMode(unitLexed.pos)]
        ELSE [lexed EXCEPT !.segmentDuration = segmentDuration,
                           !.newTotal = Add(newTotal, segmentDuration),
                           !.prevUnit = unit]

(***************************************************************************)
(* ParseDuration as a state machine: its arguments, its locals, its        *)
(* results and the calls it made to the range checker.  pc is "loop" at    *)
(* the head of the loop and, once the function has returned, the line of   *)
(* the return statement taken.  exactTotal and iterations are history      *)
(* variables: the exact sum of the components added to totalDuration so    *)
(* far, and the number of passes through the loop body.  The call is made  *)
(* by a program using the library or by the haproxytime command.           *)
(***************************************************************************)
VARIABLES
    input, defaultUnit, parseMode, inRangeChecker,
    pc, position, totalDuration, prevUnit,
    numStartPos, value, numEndPos, unit, unitStartPos, unitEndPos,
    compositeDuration,
    duration, err, calls, exactTotal, iterations,
    source, stdin, printHuman, returned

args == << input, defaultUnit, parseMode, inRangeChecker >>

locals ==
    << position, totalDuration, prevUnit, numStartPos, value, numEndPos, unit,
       unitStartPos, unitEndPos, compositeDuration >>

\* Where the call comes from: "call" for a call of the library, "args" or
\* "stdin" for the command with its duration argument or without, then with
\* the content of its standard input and its -h flag.
command == << source, stdin, printHuman >>

\* returned: what the earlier calls with the same arguments returned.

vars ==
    << args, pc, locals, duration, err, calls, exactTotal, iterations, command,
       returned >>

\* The return statements of ParseDuration, by line.
ErrorReturns == {"L499", "L501", "L512", "L517", "L523", "L527", "L542"}
Returns == ErrorReturns \cup {"L546"}

\* The entry of ParseDuration, for every choice of its arguments.
Init ==
    /\ input \in Inputs
    /\ defaultUnit \in Units
    /\ parseMode \in ParseModes
    /\ inRangeChecker \in RangeCheckers
    /\ pc = "loop"
    /\ position = 0
    /\ totalDuration = I64(0)
    /\ prevUnit = Day
    /\ numStartPos = 0
    /\ value = I64(0)
    /\ numEndPos = 0
    /\ unit = defaultUnit
    /\ unitStartPos = 0
    /\ unitEndPos = 0
    /\ compositeDuration = I64(0)
    /\ duration = I64(0)
    /\ err = nil
    /\ calls = << >>
    /\ exactTotal = Wide(0)
    /\ iterations = 0
    /\ returned = << >>
    /\ source = "call"
    /\ stdin = << >>
    /\ printHuman = FALSE

\* A variant of the loop body whose error returns hand back the total
\* accumulated so far.
ParseStepPartialResult ==
    /\ pc = "loop"
    /\ LoopCondition(position, input)
    /\ \E it \in {Iteration(input, defaultUnit, parseMode, inRangeChecker,
                            position, totalDuration, prevUnit)} :
           /\ pc' = it.pc
           /\ position' = it.position
           /\ totalDuration' = it.totalDuration
           /\ prevUnit' = it.prevUnit
           /\ numStartPos' = it.numStartPos
           /\ value' = it.value
           /\ numEndPos' = it.numEndPos
           /\ unit' = it.unit
           /\ unitStartPos' = it.unitStartPos
           /\ unitEndPos' = it.unitEndPos
           /\ compositeDuration' = it.compositeDuration
           /\ calls' = calls \o it.invoked
           /\ iterations' = iterations + 1
           /\ IF it.pc = "loop"
              THEN UNCHANGED << duration, err >>
              ELSE duration' = it.totalDuration /\ err' = it.err
           /\ exactTotal' =
                 IF it.pc \in {"loop", "L542"}
                 THEN Add(exactTotal,
                          ExactComponent(input, it.numStartPos, it.numEndPos,
                                         it.unit))
                 ELSE exactTotal
    /\ UNCHANGED << args, command, returned >>

\* One pass through the loop body.
ParseStep ==
    /\ pc = "loop"
    /\ LoopCondition(position, input)
    /\ \E it \in {Iteration(input, defaultUnit, parseMode, inRangeChecker,
                            position, totalDuration, prevUnit)} :
           /\ pc' = it.pc
           /\ position' = it.position
           /\ totalDuration' = it.totalDuration
           /\ prevUnit' = it.prevUnit
           /\ numStartPos' = it.numStartPos
           /\ value' = it.value
           /\ numEndPos' = it.numEndPos
           /\ unit' = it.unit
           /\ unitStartPos' = it.unitStartPos
           /\ unitEndPos' = it.unitEndPos
           /\ compositeDuration' = it.compositeDuration
           /\ calls' = calls \o it.invoked
           /\ iterations' = iterations + 1
           /\ IF it.pc = "loop"
              THEN UNCHANGED << duration, err >>
              ELSE duration' = I64(0) /\ err' = it.err
           /\ exactTotal' =
                 IF it.pc \in {"loop", "L542"}
                 THEN Add(exactTotal,
                          ExactComponent(input, it.numStartPos, it.numEndPos,
                                         it.unit))
                 ELSE exactTotal
    /\ UNCHANGED << args, command, returned >>

\* The loop's exit: return totalDuration, nil.
ParseReturn ==
    /\ pc = "loop"
    /\ ~LoopCondition(position, input)
    /\ pc' = "L546"
    /\ duration' = totalDuration
    /\ err' = nil
    /\ UNCHANGED << args, locals, calls, exactTotal, iterations, command, returned >>

Next == ParseStep \/ ParseReturn

Spec == Init /\ [][Next]_vars

\* What every step of Next is: taken at the head of the loop, it leaves
\* pc at a return or runs the loop body once more.
Step ==
    /\ pc = "loop"
    /\ pc' \in Returns \cup {"loop"}
    /\ iterations' \in {iterations, iterations + 1}

\* ParseDuration is not suspended: it runs on until it returns.  Next is
\* enabled exactly at the head of the loop (one of ParseStep and ParseReturn
\* is, by LoopCondition), and so is a Step that changes pc or iterations.
FairSpec == Spec /\ WF_<< pc, iterations >>(Step)

(***************************************************************************)
(* The haproxytime command, convertDuration, from the reading of its       *)
(* input on: the duration is the first argument or, without one, what      *)
(* readAll makes of standard input, and ParseDuration is called with the   *)
(* default unit millisecond, in MultiUnit mode, with the checker of        *)
(* maxTimeout.  What the command writes and returns is a function of the   *)
(* state in which ParseDuration has returned.                              *)
(***************************************************************************)
Zeros(n) == [i \in 1..n |-> "0"]

\* Contents of standard input around the cap: of maxBytes bytes, of one
\* byte more that is a newline, that spoils the duration, or that is
\* one more digit of it.
LongContents ==
    {Zeros(maxBytes - 2) \o << "1", "d" >>,
     Zeros(maxBytes - 2) \o << "1", "d", "\n" >>,
     Zeros(maxBytes - 2) \o << "1", "d", "x" >>,
     Zeros(maxBytes - 1) \o << "1", "5" >>}

StdinContents ==
    {arg \o nl : arg \in TestInputs, nl \in {<< >>, << "\n" >>, << "\n", "\n" >>}}
        \cup LongContents

CommandInit ==
    /\ printHuman \in BOOLEAN
    /\ \/ /\ source = "args"
          /\ stdin = << >>
          /\ \E arg \in TestInputs : input = readInput(stdin, << arg >>, maxBytes)
       \/ /\ source = "stdin"
          /\ stdin \in StdinContents
          /\ input = readInput(stdin, << >>, maxBytes)
    /\ defaultUnit = Millisecond
    /\ parseMode = ParseModeMultiUnit
    /\ inRangeChecker = "withinMaxTimeout"
    /\ pc = "loop"
    /\ position = 0
    /\ totalDuration = I64(0)
    /\ prevUnit = Day
    /\ numStartPos = 0
    /\ value = I64(0)
    /\ numEndPos = 0
    /\ unit = defaultUnit
    /\ unitStartPos = 0
    /\ unitEndPos = 0
    /\ compositeDuration = I64(0)
    /\ duration = I64(0)
    /\ err = nil
    /\ calls = << >>
    /\ exactTotal = Wide(0)
    /\ iterations = 0
    /\ returned = << >>

CommandSpec == CommandInit /\ [][Next]_vars

(***************************************************************************)
(* ParseDuration called again with the same arguments, once the call       *)
(* before has returned: the new call starts over with its own cursor,      *)
(* total and previous unit (lines 489 to 491), as every call does.         *)
(***************************************************************************)
MaxCalls == 2

\* A variant whose running total is kept from one call to the next.
CallAgainKeepingTotal ==
    /\ pc \in Returns
    /\ Len(returned) < MaxCalls - 1
    /\ returned' = Append(returned, [duration |-> duration, err |-> err])
    /\ pc' = "loop"
    /\ position' = 0
    /\ totalDuration' = totalDuration
    /\ prevUnit' = Day
    /\ numStartPos' = 0
    /\ value' = I64(0)
    /\ numEndPos' = 0
    /\ unit' = defaultUnit
    /\ unitStartPos' = 0
    /\ unitEndPos' = 0
    /\ compositeDuration' = I64(0)
    /\ duration' = I64(0)
    /\ err' = nil
    /\ calls' = << >>
    /\ exactTotal' = Wide(0)
    /\ iterations' = 0
    /\ UNCHANGED << args, command >>

CallAgain ==
    /\ pc \in Returns
    /\ Len(returned) < MaxCalls - 1
    /\ returned' = Append(returned, [duration |-> duration, err |-> err])
    /\ pc' = "loop"
    /\ position' = 0
    /\ totalDuration' = I64(0)
    /\ prevUnit' = Day
    /\ numStartPos' = 0
    /\ value' = I64(0)
    /\ numEndPos' = 0
    /\ unit' = defaultUnit
    /\ unitStartPos' = 0
    /\ unitEndPos' = 0
    /\ compositeDuration' = I64(0)
    /\ duration' = I64(0)
    /\ err' = nil
    /\ calls' = << >>
    /\ exactTotal' = Wide(0)
    /\ iterations' = 0
    /\ UNCHANGED << args, command >>

RepeatInit == Init /\ input \in TestInputs

RepeatNext == Next \/ CallAgain

RepeatSpec == RepeatInit /\ [][RepeatNext]_vars

(***************************************************************************)
(* The earlier ParseDuration of README.md as a state machine over the same *)
(* variables: totalDuration is its newTotal, numStartPos its               *)
(* numberPosition, unitStartPos its unitPosition, compositeDuration its    *)
(* segmentDuration; units are numbered as in README.md, and pc is the line *)
(* of README.md of the return taken.                                       *)
(***************************************************************************)
ReadmeErrorReturns == {"R459", "R464", "R478", "R482", "R487", "R494"}
ReadmeReturns == ReadmeErrorReturns \cup {"R498"}

\* Day counts and hour counts around the limit of MaxTimeout and around the
\* multiples of 2^64 nanoseconds, and numbers around 2^31.
ReadmeNumerals ==
    {<< 0 >>, << 1 >>, << 2, 4 >>, << 2, 5 >>, << 5, 9, 6 >>, << 5, 9, 7 >>,
     << 1, 0, 6, 7, 5, 1 >>, << 1, 0, 6, 7, 5, 2 >>, << 1, 0, 6, 7, 7, 7 >>,
     << 1, 1, 0, 0, 0, 0 >>, << 2, 1, 3, 5, 0, 4 >>,
     << 2, 5, 6, 2, 0, 4, 8 >>, << 2, 5, 6, 2, 6, 4, 5 >>,
     << 2, 1, 4, 7, 4, 8, 3, 6, 4, 7 >>, << 2, 1, 4, 7, 4, 8, 3, 6, 4, 8 >>}

ReadmeInputs ==
    TestInputs
        \cup {Numeral(ds) \o suffix : ds \in ReadmeNumerals, suffix \in Suffixes}
        \cup {<< "1", "d" >> \o Numeral(ds) \o << "h" >> : ds \in ReadmeNumerals}

ReadmeInit ==
    /\ source = "readme"
    /\ stdin = << >>
    /\ printHuman = FALSE
    /\ returned = << >>
    /\ input \in ReadmeInputs
    /\ defaultUnit \in ReadmeUnits
    /\ parseMode \in ParseModes
    /\ inRangeChecker = "nil"
    /\ pc = "loop"
    /\ position = 0
    /\ totalDuration = I64(0)
    /\ prevUnit = 0
    /\ numStartPos = 0
    /\ value = I64(0)
    /\ numEndPos = 0
    /\ unit = 0
    /\ unitStartPos = 0
    /\ unitEndPos = 0
    /\ compositeDuration = I64(0)
    /\ duration = I64(0)
    /\ err = nil
    /\ calls = << >>
    /\ exactTotal = Wide(0)
    /\ iterations = 0

\* The unit of the model's numbering for a unit of README.md's.
UnitOf(n) == Day + 1 - n

\* One pass through the loop body (lines 455 to 495).
ReadmeParseStep ==
    /\ pc = "loop"
    /\ position < Len(input)
    /\ \E it \in {ReadmeIteration(input, defaultUnit, parseMode, position,
                                  totalDuration, prevUnit)} :
           /\ pc' = it.pc
           /\ position' = it.position
           /\ totalDuration' = it.newTotal
           /\ prevUnit' = it.prevUnit
           /\ numStartPos' = it.numberPosition
           /\ value' = it.value
           /\ numEndPos' = it.numberEnd
           /\ unit' = it.unit
           /\ unitStartPos' = it.unitPosition
           /\ unitEndPos' = it.position
           /\ compositeDuration' = it.segmentDuration
           /\ iterations' = iterations + 1
           /\ IF it.pc = "loop"
              THEN UNCHANGED << duration, err >>
              ELSE duration' = I64(0) /\ err' = it.err
           /\ exactTotal' =
                 IF it.pc \in {"loop", "R494"}
                 THEN Add(exactTotal,
                          ExactComponent(input, it.numberPosition, it.numberEnd,
                                         UnitOf(it.unit)))
                 ELSE exactTotal
    /\ UNCHANGED << args, calls, command, returned >>

\* The loop's exit: return newTotal, nil (line 498).
ReadmeParseReturn ==
    /\ pc = "loop"
    /\ ~(position < Len(input))
    /\ pc' = "R498"
    /\ duration' = totalDuration
    /\ err' = nil
    /\ UNCHANGED << args, locals, calls, exactTotal, iterations, command, returned >>

ReadmeNext == ReadmeParseStep \/ ReadmeParseReturn

ReadmeSpec == ReadmeInit /\ [][ReadmeNext]_vars

\* What convertDuration has written to standard error, to standard output,
\* and what it returns, once ParseDuration has returned.
Stderr ==
    IF err = nil THEN << >>
    ELSE IF source = "args" THEN printPositionalError(err, input)
    ELSE << Error(err) >>

Stdout == IF err # nil THEN << >> ELSE << output(duration, printHuman) >>

(***************************************************************************)
(* What the claims speak of.                                               *)
(***************************************************************************)
Done == pc \in Returns

Zero == I64(0)

\* The last iteration added its component to totalDuration (line 530).
Added == pc = "L542" \/ (pc \in {"loop", "L546"} /\ position > 0)

\* The last iteration computed compositeDuration (line 521).
ReachedArithmetic == pc \in {"L523", "L527"} \/ Added

\* The last iteration lexed a number and a unit (lines 495 to 514).
Lexed == pc = "L517" \/ ReachedArithmetic

\* The exact duration of the component of the last iteration, and the exact
\* sum of the components up to and including it.
ExactLast == ExactComponent(input, numStartPos, numEndPos, unit)

ExactUpToLast == IF Added THEN exactTotal ELSE Add(exactTotal, ExactLast)

ExceedsMaxInt64(x) == LessU(WideMaxInt64, x)

AlwaysTrueChecker == inRangeChecker \in {"nil", "NoRangeChecking"}

(***************************************************************************)
(* C1.  For every component, if value x multiplier exceeds the int64       *)
(* range, or the running total plus that product would, ParseDuration      *)
(* returns an OverflowError at the start of the component's numeral; no    *)
(* input whose exact product or sum exceeds MaxInt64 yields a successful   *)
(* result.                                                                 *)
(***************************************************************************)
C1_OverflowAlwaysDetected ==
    /\ (ReachedArithmetic /\ ExceedsMaxInt64(ExactUpToLast))
          => /\ pc = "L523"
             /\ err = newOverflowError(numStartPos)
             /\ duration = Zero
    /\ (pc = "L546") => ~ExceedsMaxInt64(exactTotal)

(***************************************************************************)
(* C2.  Every input accepted in MultiUnit mode with a checker that always  *)
(* returns true yields the exact sum of value x multiplier over its        *)
(* components.                                                             *)
(***************************************************************************)
C2_AcceptedIsExactSum ==
    (pc = "L546" /\ parseMode = ParseModeMultiUnit /\ AlwaysTrueChecker)
        => WideOf(duration) = exactTotal

(***************************************************************************)
(* C3.  In MultiUnit mode units must descend strictly: when the loop is at *)
(* a second or later component whose number and unit lex, and that unit is *)
(* of equal or greater magnitude than the previous component's, the        *)
(* iteration returns SyntaxError InvalidUnitOrder at the start offset of   *)
(* the second unit (the end of its numeral), with duration 0; a repeated   *)
(* unit is rejected the same way.                                          *)
(***************************************************************************)
C3_UnitsStrictlyDescending ==
    [][(/\ pc = "loop"
        /\ position > 0
        /\ position < Len(input)
        /\ parseMode = ParseModeMultiUnit
        /\ pc' \notin {"L499", "L501", "L512"}
        /\ unit' >= prevUnit)
          => /\ pc' = "L517"
             /\ err' = newSyntaxErrorInvalidUnitOrder(unitStartPos')
             /\ unitStartPos' = numEndPos'
             /\ numStartPos' = position
             /\ duration' = Zero]_vars

\* A repeated unit, lexed from the input, rejected in MultiUnit mode.
C3_Witness ==
    /\ pc = "L517"
    /\ parseMode = ParseModeMultiUnit
    /\ unit = prevUnit
    /\ unitStartPos < Len(input)
    /\ err = newSyntaxErrorInvalidUnitOrder(unitStartPos)

(***************************************************************************)
(* C4.  Boundary.  For each unit u, the value MaxInt64 / m(u) with unit u  *)
(* parses to exactly that duration and the next value fails with           *)
(* OverflowError at position 0; in a composite input the component whose   *)
(* addition first takes the running total past MaxInt64 yields             *)
(* OverflowError at the start of its numeral.                              *)
(***************************************************************************)
ExactOfDigits(ds, u) == ExactComponent(Numeral(ds), 0, Len(ds), u)

\* The largest value of each unit with its symbol, and the next value.
MaxValueInput == [u \in Units |-> Numeral(MaxValueDigits[u]) \o Symbol[u]]
NextValueInput == [u \in Units |-> Numeral(Succ(MaxValueDigits[u])) \o Symbol[u]]

\* The exact sum of the components before the one of the last iteration.
ExactBeforeLast == IF Added THEN Sub(exactTotal, ExactLast) ELSE exactTotal

\* The single-component part of the claim; the first conjunct of each case
\* says that MaxValueDigits[u] is MaxInt64 / m(u) rounded down.
C4_SingleComponentBoundary ==
    Done =>
        \A u \in Units :
            /\ (input = MaxValueInput[u] /\ AlwaysTrueChecker)
                  => /\ ~ExceedsMaxInt64(ExactOfDigits(MaxValueDigits[u], u))
                     /\ pc = "L546"
                     /\ err = nil
                     /\ WideOf(duration) = ExactOfDigits(MaxValueDigits[u], u)
            /\ (input = NextValueInput[u])
                  => /\ ExceedsMaxInt64(ExactOfDigits(Succ(MaxValueDigits[u]), u))
                     /\ err = newOverflowError(0)
                     /\ duration = Zero

\* The composite part of the claim.
C4_CompositeBoundary ==
    (/\ ReachedArithmetic
     /\ numStartPos > 0
     /\ ~ExceedsMaxInt64(ExactBeforeLast)
     /\ ExceedsMaxInt64(ExactUpToLast))
        => /\ pc = "L523"
           /\ err = newOverflowError(numStartPos)
           /\ duration = Zero

\* "106751d23h47m16s854ms984us" overflows at its last component.
OverMaxInput ==
    Numeral(<< 1, 0, 6, 7, 5, 1 >>) \o << "d" >> \o Numeral(<< 2, 3 >>) \o << "h" >>
        \o Numeral(<< 4, 7 >>) \o << "m" >> \o Numeral(<< 1, 6 >>) \o << "s" >>
        \o Numeral(<< 8, 5, 4 >>) \o << "m", "s" >>
        \o Numeral(<< 9, 8, 4 >>) \o << "u", "s" >>

C4_CompositeExample ==
    (/\ input = OverMaxInput
     /\ parseMode = ParseModeMultiUnit
     /\ AlwaysTrueChecker
     /\ Done)
        => /\ err = newOverflowError(21)
           /\ duration = Zero

\* The largest number of hours is accepted and is exact.
C4_Reached ==
    /\ input = MaxValueInput[Hour]
    /\ pc = "L546"
    /\ WideOf(duration) = ExactOfDigits(MaxValueDigits[Hour], Hour)

C4_Boundary ==
    C4_CompositeBoundary /\ C4_SingleComponentBoundary /\ C4_CompositeExample

(***************************************************************************)
(* C5.  OverflowError takes precedence over RangeError: when at one        *)
(* component the overflow condition holds and the checker would return     *)
(* false, ParseDuration returns OverflowError and does not invoke the      *)
(* checker for that component.                                             *)
(***************************************************************************)
\* totalDuration as it was before the last iteration added to it.
TotalBeforeLast ==
    IF Added THEN Sub(totalDuration, compositeDuration) ELSE totalDuration

\* The checker was invoked for the component of the last iteration.
InvokedForLast == calls # << >> /\ calls[Len(calls)].position = numStartPos

CheckerWouldReject ==
    /\ inRangeChecker # "nil"
    /\ ~InRange(inRangeChecker, numStartPos, compositeDuration, TotalBeforeLast)

C5_OverflowBeforeRange ==
    (ReachedArithmetic /\ ExceedsMaxInt64(ExactUpToLast) /\ CheckerWouldReject)
        => /\ pc = "L523"
           /\ err = newOverflowError(numStartPos)
           /\ ~InvokedForLast

\* The same with the overflow condition as the code tests it (line 522).
C5_DetectedOverflowBeforeRange ==
    (ReachedArithmetic /\ Overflows(compositeDuration, TotalBeforeLast))
        => /\ pc = "L523"
           /\ err = newOverflowError(numStartPos)
           /\ ~InvokedForLast

(***************************************************************************)
(* C6.  When the range checker returns false for a component,              *)
(* ParseDuration returns duration 0 and a RangeError whose position is     *)
(* the start of that component's numeral; "24d20h31m23s647ms1000us" with   *)
(* a checker rejecting totals of 2147483647 ms or more, in MultiUnit       *)
(* mode, yields RangeError at position 17.                                 *)
(***************************************************************************)
\* "24d20h31m23s647ms1000us"
OverLimitInput ==
    Numeral(<< 2, 4 >>) \o << "d" >> \o Numeral(<< 2, 0 >>) \o << "h" >>
        \o Numeral(<< 3, 1 >>) \o << "m" >> \o Numeral(<< 2, 3 >>) \o << "s" >>
        \o Numeral(<< 6, 4, 7 >>) \o << "m", "s" >>
        \o Numeral(<< 1, 0, 0, 0 >>) \o << "u", "s" >>

C6_RangeErrorAtNumeral ==
    /\ (calls # << >> /\ ~calls[Len(calls)].result)
          => /\ pc = "L527"
             /\ duration = Zero
             /\ err = newRangeError(numStartPos)
             /\ calls[Len(calls)].position = numStartPos
    /\ \A i \in 1 .. Len(calls) : ~calls[i].result => i = Len(calls)
    /\ (pc = "L527") => (calls # << >> /\ ~calls[Len(calls)].result)
    /\ (/\ input = OverLimitInput
        /\ inRangeChecker = "totalBelowMaxMs"
        /\ parseMode = ParseModeMultiUnit
        /\ Done)
          => /\ err = newRangeError(17)
             /\ duration = Zero

C6_Witness ==
    /\ input = OverLimitInput
    /\ inRangeChecker = "totalBelowMaxMs"
    /\ parseMode = ParseModeMultiUnit
    /\ pc = "L527"
    /\ numStartPos = 17
    /\ ~calls[Len(calls)].result

(***************************************************************************)
(* C7.  In SingleUnit mode exactly one valid component succeeds; when      *)
(* characters remain after the first valid component, ParseDuration fails  *)
(* with an unexpected-characters syntax error at the offset right after    *)
(* that component, whatever the remainder is: "1h" yields one hour and     *)
(* "1h1m" fails at offset 2.                                               *)
(***************************************************************************)
C7_SingleUnitMode ==
    (parseMode = ParseModeSingleUnit) =>
        /\ ReachedArithmetic => numStartPos = 0
        /\ (Added /\ position < Len(input)) => pc = "L542"
        /\ (pc = "L542")
              => /\ Added
                 /\ position = max(unitEndPos, numEndPos)
                 /\ position < Len(input)
                 /\ err = newSyntaxErrorUnexpectedCharactersInSingleUnitMode(position)
                 /\ duration = Zero
        /\ (pc = "L546" /\ input # << >>)
              => /\ position = Len(input)
                 /\ err = nil
                 /\ duration = compositeDuration
        /\ (input = << "1", "h" >> /\ inRangeChecker # "rejectAll" /\ Done)
              => /\ err = nil
                 /\ duration = TimeHour
        /\ (input = << "1", "h", "1", "m" >> /\ inRangeChecker # "rejectAll" /\ Done)
              => /\ err = newSyntaxErrorUnexpectedCharactersInSingleUnitMode(2)
                 /\ duration = Zero

C7_Witness ==
    /\ parseMode = ParseModeSingleUnit
    /\ input = << "1", "h", "1", "m" >>
    /\ pc = "L542"
    /\ err = newSyntaxErrorUnexpectedCharactersInSingleUnitMode(2)

(***************************************************************************)
(* C8.  The empty input returns duration 0 and no error, for every         *)
(* default unit, parse mode and range checker: no loop iteration runs and  *)
(* the checker is never invoked.                                           *)
(***************************************************************************)
C8_EmptyInput ==
    (input = << >>) =>
        /\ pc \in {"loop", "L546"}
        /\ calls = << >>
        /\ position = 0
        /\ numEndPos = 0
        /\ totalDuration = Zero
        /\ exactTotal = Wide(0)
        /\ Done => (pc = "L546" /\ duration = Zero /\ err = nil)

C8_Witness ==
    /\ input = << >>
    /\ pc = "L546"
    /\ inRangeChecker = "rejectAll"
    /\ parseMode = ParseModeSingleUnit
    /\ defaultUnit = Hour
    /\ err = nil

(***************************************************************************)
(* C9.  A run of digits that extends to the end of the input is taken in   *)
(* the caller's default unit, with no character consumed for the unit;     *)
(* once it is added the cursor equals len(input) and parsing ends          *)
(* successfully: "5000" with default ms is 5000 ms, and "0d0h0m0s1" with   *)
(* default ms is 1 ms.                                                     *)
(***************************************************************************)
\* The last iteration lexed a number.
NumberLexed == pc = "L512" \/ Lexed

UnitChar == At(input, unitStartPos)
UnitHasTrailingS ==
    unitStartPos + 1 < Len(input) /\ At(input, unitStartPos + 1) = "s"

\* The last iteration took unit u from n characters.
TookUnit(u, n) ==
    /\ pc # "L512"
    /\ unit = u
    /\ unitEndPos = unitStartPos + n
    /\ Added => position = unitEndPos

C10_GreedyCaseSensitiveUnits ==
    (NumberLexed /\ unitStartPos < Len(input)) =>
        CASE UnitChar = "m" /\ UnitHasTrailingS -> TookUnit(Millisecond, 2)
          [] UnitChar = "u" /\ UnitHasTrailingS -> TookUnit(Microsecond, 2)
          [] UnitChar = "m" /\ ~UnitHasTrailingS -> TookUnit(Minute, 1)
          [] UnitChar = "d" -> TookUnit(Day, 1)
          [] UnitChar = "h" -> TookUnit(Hour, 1)
          [] UnitChar = "s" -> TookUnit(Second, 1)
          [] OTHER -> /\ pc = "L512"
                      /\ err = newSyntaxErrorInvalidUnit(unitStartPos)
                      /\ duration = Zero

C10_Witness ==
    /\ NumberLexed
    /\ unitStartPos < Len(input)
    /\ UnitChar = "m"
    /\ UnitHasTrailingS
    /\ unit = Millisecond
    /\ Added
    /\ position = unitStartPos + 2

(***************************************************************************)
(* C11.  When a number is followed by more input and what stands there is  *)
(* not a unit symbol, ParseDuration fails with a SyntaxError of cause      *)
(* InvalidUnit at the offset where the symbol starts: "1h1x" fails at 3,   *)
(* "2d30m1Y" at 6 and "100.d" at 3.                                        *)
(***************************************************************************)
\* A unit symbol stands in the input at offset p.
UnitSymbolAt(p) ==
    \E u \in Units :
        /\ p + Len(Symbol[u]) <= Len(input)
        /\ SubSeq(input, p + 1, p + Len(Symbol[u])) = Symbol[u]

IsInvalidUnitAt(e, p) ==
    e.kind = "SyntaxError" /\ e.cause = "InvalidUnit" /\ e.position = p

C11_UnrecognisedUnit ==
    /\ (NumberLexed /\ numEndPos < Len(input) /\ ~UnitSymbolAt(numEndPos))
          => /\ pc = "L512"
             /\ numEndPos > numStartPos
             /\ unitStartPos = numEndPos
             /\ IsInvalidUnitAt(err, numEndPos)
             /\ duration = Zero
    /\ (pc = "L512") => ~UnitSymbolAt(unitStartPos)
    /\ (/\ input = << "1", "h", "1", "x" >>
        /\ parseMode = ParseModeMultiUnit
        /\ inRangeChecker # "rejectAll"
        /\ Done)
          => IsInvalidUnitAt(err, 3)
    /\ (/\ input = << "2", "d", "3", "0", "m", "1", "Y" >>
        /\ parseMode = ParseModeMultiUnit
        /\ inRangeChecker # "rejectAll"
        /\ Done)
          => IsInvalidUnitAt(err, 6)
    /\ (input = << "1", "0", "0", ".", "d" >> /\ Done)
          => IsInvalidUnitAt(err, 3)

C11_Witness ==
    /\ input = << "2", "d", "3", "0", "m", "1", "Y" >>
    /\ pc = "L512"
    /\ unitStartPos = 6
    /\ IsInvalidUnitAt(err, 6)

(***************************************************************************)
(* C12.  "100.d" with default unit millisecond in MultiUnit mode fails     *)
(* with a SyntaxError at the offset of the '.' (offset 3).  As claimed,    *)
(* the cause is InvalidNumber; as the code has it, the digits "100" are a  *)
(* number and the '.' stands where a unit is expected, so that the cause   *)
(* is InvalidUnit.                                                         *)
(***************************************************************************)
HundredDotD == << "1", "0", "0", ".", "d" >>

ParsedHundredDotD ==
    /\ input = HundredDotD
    /\ defaultUnit = Millisecond
    /\ parseMode = ParseModeMultiUnit
    /\ Done

\* C12 as claimed: the cause is InvalidNumber.
C12_DotIsInvalidNumber ==
    ParsedHundredDotD => err = newSyntaxErrorInvalidNumber(3)

\* C12 as the code has it: the cause is InvalidUnit.
C12_DotIsInvalidUnit ==
    ParsedHundredDotD
        => /\ pc = "L512"
           /\ numStartPos = 0
           /\ numEndPos = 3
           /\ value = I64(100)
           /\ At(input, unitStartPos) = "."
           /\ err.kind = "SyntaxError"
           /\ err.cause = "InvalidUnit"
           /\ err.position = 3
           /\ duration = Zero

C12_Witness == ParsedHundredDotD /\ pc = "L512" /\ err.position = 3

(***************************************************************************)
(* C13.  "1d 5m 1h" with default unit millisecond in MultiUnit mode.  As   *)
(* claimed, whitespace separates components and the call fails with        *)
(* InvalidUnitOrder at the offset of "1h"; as the code has it, a space is  *)
(* no separator: the call fails with InvalidNumber at the first space      *)
(* (offset 2), and no input that holds a space parses successfully.        *)
(***************************************************************************)
SpacedInput == << "1", "d", " ", "5", "m", " ", "1", "h" >>

ParsedSpacedInput ==
    /\ input = SpacedInput
    /\ defaultUnit = Millisecond
    /\ parseMode = ParseModeMultiUnit
    /\ inRangeChecker # "rejectAll"
    /\ Done

HasSpace(s) == \E i \in 1 .. Len(s) : s[i] = " "

\* C13 as claimed: InvalidUnitOrder at the offset of "1h".
C13_WhitespaceSeparates ==
    ParsedSpacedInput => err = newSyntaxErrorInvalidUnitOrder(6)

\* C13 as the code has it.
C13_WhitespaceRejected ==
    /\ ParsedSpacedInput
          => /\ pc = "L499"
             /\ numStartPos = 2
             /\ err = newSyntaxErrorInvalidNumber(2)
             /\ duration = Zero
    /\ (HasSpace(input) /\ Done) => (err # nil /\ duration = Zero)

C13_Witness == ParsedSpacedInput /\ pc = "L499" /\ err.position = 2

(***************************************************************************)
(* C14.  Whenever a loop iteration starts (cursor < len(input)) at a       *)
(* character that is not a decimal digit -- a space, a sign, a letter, or  *)
(* what is left over after a complete component as in "1d30mX" --          *)
(* ParseDuration fails with a SyntaxError of cause InvalidNumber at the    *)
(* cursor; an empty run of digits is never the value zero and no input     *)
(* with a leading minus sign is accepted.                                  *)
(***************************************************************************)
\* A loop iteration has run.
Iterated == pc \notin {"loop", "L546"} \/ position > 0

C14_IterationAtNonDigit ==
    (/\ pc = "loop"
     /\ position < Len(input)
     /\ ~IsDigit(At(input, position)))
        => /\ pc' = "L499"
           /\ err' = newSyntaxErrorInvalidNumber(position)
           /\ numStartPos' = position
           /\ duration' = Zero
           /\ calls' = calls
           /\ totalDuration' = totalDuration

C14_NoEmptyNumber ==
    /\ (pc = "L499")
          => /\ ~IsDigit(At(input, numStartPos))
             /\ numEndPos = numStartPos
    /\ (Iterated /\ pc # "L499") => IsDigit(At(input, numStartPos))
    /\ NumberLexed => numEndPos > numStartPos
    /\ (Done /\ input # << >> /\ At(input, 0) \in {"-", "+", " "})
          => err = newSyntaxErrorInvalidNumber(0)
    /\ (/\ input = << "1", "d", "3", "0", "m", "X" >>
        /\ parseMode = ParseModeMultiUnit
        /\ inRangeChecker # "rejectAll"
        /\ Done)
          => err = newSyntaxErrorInvalidNumber(5)

C14_NonDigitIsInvalidNumber ==
    [][C14_IterationAtNonDigit]_vars /\ []C14_NoEmptyNumber

C14_Witness ==
    /\ input = << "1", "d", "3", "0", "m", "X" >>
    /\ pc = "L499"
    /\ numStartPos = 5
    /\ err = newSyntaxErrorInvalidNumber(5)

(***************************************************************************)
(* C15.  A run of digits whose decimal value exceeds MaxInt64 yields       *)
(* OverflowError at the offset where the run starts -- not where the       *)
(* overflow was detected, nor at the end of the run -- whatever follows    *)
(* the run: "9223372036854775808ns" fails with OverflowError at offset 0,  *)
(* not with InvalidUnit.                                                   *)
(***************************************************************************)
\* The offset where the run of digits of inp from p ends.
RECURSIVE RunEnd(_, _)
RunEnd(inp, p) ==
    IF p < Len(inp) /\ IsDigit(At(inp, p)) THEN RunEnd(inp, p + 1) ELSE p

\* The run of digits of inp from p exceeds MaxInt64; a run of fewer digits
\* than MaxInt64 has cannot.
RunExceedsMaxInt64(inp, p) ==
    /\ RunEnd(inp, p) - p >= Len(MaxInt64Digits)
    /\ ExceedsMaxInt64(WideNumeral(inp, p, RunEnd(inp, p)))

C15_NumberOverflowAtRunStart ==
    /\ (Iterated /\ RunExceedsMaxInt64(input, numStartPos))
          => /\ pc = "L501"
             /\ err = newOverflowError(numStartPos)
             /\ numEndPos > numStartPos
             /\ numEndPos < RunEnd(input, numStartPos)
             /\ duration = Zero
    /\ (pc = "L501") => RunExceedsMaxInt64(input, numStartPos)
    /\ NumberLexed => numEndPos = RunEnd(input, numStartPos)
    /\ (/\ input = Numeral(Succ(MaxInt64Digits)) \o << "n", "s" >>
        /\ Done)
          => err = newOverflowError(0)

C15_Witness ==
    /\ pc = "L501"
    /\ numStartPos = 2
    /\ RunEnd(input, numStartPos) = 21
    /\ At(input, 21) = "h"
    /\ err = newOverflowError(2)

(***************************************************************************)
(* C16.  Errors are terminal and there is no partial result:               *)
(* ParseDuration returns either (total, nil) or (0, err); with an error    *)
(* the duration is 0 whatever had been accumulated, parsing stops at the   *)
(* first failing check, and a call produces at most one error.             *)
(***************************************************************************)
C16_TotalOrError ==
    /\ ~Done => (err = nil /\ duration = Zero)
    /\ (pc = "L546") => (err = nil /\ duration = totalDuration)
    /\ (pc \in ErrorReturns) => (err # nil /\ duration = Zero)
    /\ (err # nil) => pc \in ErrorReturns

\* Nothing happens after a return.
C16_ReturnIsFinal == Done => UNCHANGED vars

C16_ErrorsAreTerminal == []C16_TotalOrError /\ [][C16_ReturnIsFinal]_vars

C16_Witness ==
    /\ pc \in ErrorReturns
    /\ totalDuration # Zero
    /\ position < Len(input)
    /\ err # nil
    /\ duration = Zero

(***************************************************************************)
(* C17.  Parsed durations are never negative: in every reachable state     *)
(* the running total is between 0 and MaxInt64, it never decreases from    *)
(* one iteration to the next, and every duration returned, with or         *)
(* without an error, is at least 0.                                        *)
(***************************************************************************)
C17_NonNegative ==
    /\ ~IsNegative(totalDuration)
    /\ LessEq(totalDuration, MaxInt64)
    /\ ~IsNegative(duration)
    /\ Added => ~IsNegative(compositeDuration)

C17_TotalNeverDecreases == LessEq(totalDuration, totalDuration')

C17_NeverNegative == []C17_NonNegative /\ [][C17_TotalNeverDecreases]_vars

C17_Witness ==
    /\ pc = "L546"
    /\ numStartPos > 0
    /\ Less(Zero, TotalBeforeLast)
    /\ Less(TotalBeforeLast, totalDuration)
    /\ duration = totalDuration

(***************************************************************************)
(* C18.  Round trip: for every duration d that a successful ParseDuration  *)
(* call returns, formatDuration(d) parsed again in MultiUnit mode with     *)
(* default unit microsecond gives d.                                       *)
(***************************************************************************)
Reparsed(d) ==
    ParseDuration(formatDuration(d), Microsecond, ParseModeMultiUnit,
                  "NoRangeChecking")

RoundTrips(d) == Reparsed(d) = [duration |-> d, err |-> nil]

WholeMilliseconds(d) == Mul(Milliseconds(d), TimeMillisecond) = d

C18_RoundTrip == (pc = "L546") => RoundTrips(duration)

\* The same for the durations that are a whole number of milliseconds.
C18_RoundTripOfMilliseconds ==
    (pc = "L546" /\ WholeMilliseconds(duration)) => RoundTrips(duration)

\* And what is lost otherwise: the part below one millisecond.
C18_TruncatedToMilliseconds ==
    (pc = "L546")
        => Reparsed(duration)
              = [duration |-> Mul(Milliseconds(duration), TimeMillisecond),
                 err |-> nil]

(***************************************************************************)
(* C19.  ParseDuration terminates for every input: an iteration that does  *)
(* not return an error before line 534 consumes at least one digit and     *)
(* sets the cursor to max(unitEndPos, numEndPos), which is greater than    *)
(* the cursor the iteration started with and at most len(input), so that   *)
(* the loop body runs at most len(input) times before the return.          *)
(***************************************************************************)
\* A pass through the loop body that reaches line 534.
C19_IterationAdvances ==
    (pc = "loop" /\ pc' \in {"loop", "L542"})
        => /\ numStartPos' = position
           /\ numEndPos' > numStartPos'
           /\ position' = max(unitEndPos', numEndPos')
           /\ position' > position
           /\ position' <= Len(input)
           /\ iterations' = iterations + 1

C19_BoundedIterations ==
    /\ position <= Len(input)
    /\ iterations <= Len(input)
    /\ (pc \in {"loop", "L546"}) => iterations <= position
    /\ (pc \in ErrorReturns) => iterations <= position + 1

\* Every step is one of the steps that FairSpec is fair to.
C19_StepIsTaken == Step /\ << pc', iterations' >> # << pc, iterations >>

C19_Terminates ==
    /\ [][C19_IterationAdvances]_vars
    /\ [][C19_StepIsTaken]_vars
    /\ []C19_BoundedIterations
    /\ <>Done

C19_Witness ==
    /\ pc = "L546"
    /\ iterations = 6
    /\ Len(input) > 6
    /\ position = Len(input)

(***************************************************************************)
(* C20.  The haproxytime command enforces HAProxy's maximum timeout:       *)
(* convertDuration returns exit code 0 only if the exact sum of the        *)
(* input's components is at most 2147483647 ms; the input                  *)
(* "24d20h31m23s646ms1000us", whose sum is exactly that, is accepted; and  *)
(* every input whose exact sum is more is rejected with exit code 1 and a  *)
(* RangeError or an OverflowError.                                         *)
(***************************************************************************)
\* The call of ParseDuration that convertDuration makes (lines 356 to 359).
ConvertDurationCall ==
    /\ defaultUnit = Millisecond
    /\ parseMode = ParseModeMultiUnit
    /\ inRangeChecker = "withinMaxTimeout"

\* convertDuration's result: 1 if ParseDuration returned an error, else 0.
ExitCode == IF err # nil THEN 1 ELSE 0

WideMaxTimeout == WideOf(maxTimeout)

ExceedsMaxTimeout(x) == LessU(WideMaxTimeout, x)

\* "24d20h31m23s646ms1000us"
MaxTimeoutInput ==
    Numeral(<< 2, 4 >>) \o << "d" >> \o Numeral(<< 2, 0 >>) \o << "h" >>
        \o Numeral(<< 3, 1 >>) \o << "m" >> \o Numeral(<< 2, 3 >>) \o << "s" >>
        \o Numeral(<< 6, 4, 6 >>) \o << "m", "s" >>
        \o Numeral(<< 1, 0, 0, 0 >>) \o << "u", "s" >>

C20_MaxTimeoutEnforced ==
    ConvertDurationCall =>
        /\ (Done /\ ExitCode = 0) => ~ExceedsMaxTimeout(exactTotal)
        /\ (ReachedArithmetic /\ ExceedsMaxTimeout(ExactUpToLast))
              => /\ pc \in {"L523", "L527"}
                 /\ ExitCode = 1
                 /\ err.kind \in {"RangeError", "OverflowError"}
        /\ (input = MaxTimeoutInput /\ Done)
              => /\ ExitCode = 0
                 /\ duration = maxTimeout
                 /\ exactTotal = WideMaxTimeout

\* The same for components whose product with the unit fits int64.
C20_EnforcedWithoutWraparound ==
    ConvertDurationCall =>
        /\ (/\ ReachedArithmetic
            /\ ~ExceedsMaxTimeout(ExactBeforeLast)
            /\ ~ExceedsMaxInt64(ExactLast)
            /\ ExceedsMaxTimeout(ExactUpToLast))
              => /\ pc \in {"L523", "L527"}
                 /\ ExitCode = 1
                 /\ err \in {newRangeError(numStartPos),
                             newOverflowError(numStartPos)}
        /\ (input = MaxTimeoutInput /\ Done)
              => /\ ExitCode = 0
                 /\ duration = maxTimeout
                 /\ exactTotal = WideMaxTimeout


(***************************************************************************)
(* C21: when ParseDuration fails at the 0-based position p on a duration   *)
(* given as an argument, convertDuration writes three lines to standard    *)
(* error: the error's message (which shows p + 1), the input, and p spaces *)
(* followed by "^", so that the caret stands in column p; it writes        *)
(* nothing to standard output and returns 1.  On a duration read from      *)
(* standard input it writes the message line only.                         *)
(***************************************************************************)
Failed == Done /\ err # nil

\* "24d20h31m23s647ms1000us" (haproxytimeout_test.go, lines 167 to 177)
BeyondMaxTimeoutInput ==
    Numeral(<< 2, 4 >>) \o << "d" >> \o Numeral(<< 2, 0 >>) \o << "h" >>
        \o Numeral(<< 3, 1 >>) \o << "m" >> \o Numeral(<< 2, 3 >>) \o << "s" >>
        \o Numeral(<< 6, 4, 7 >>) \o << "m", "s" >>
        \o Numeral(<< 1, 0, 0, 0 >>) \o << "u", "s" >>

SyntaxErrorCauses ==
    {"InvalidNumber", "InvalidUnit", "InvalidUnitOrder",
     "UnexpectedCharactersInSingleUnitMode"}

\* The decimal numeral of a small natural n.
Decimal(n) == String(Sprintf(I64(n)))

\* The calls of duration_parser_test.go: without range checking.
TestCall(mode, default) ==
    /\ Failed
    /\ parseMode = mode
    /\ defaultUnit = default
    /\ inRangeChecker = "NoRangeChecking"

C22_ErrorMessages ==
    /\ \A c1, c2 \in SyntaxErrorCauses : CauseText(c1) = CauseText(c2) => c1 = c2
    /\ Failed =>
          /\ Position(err) \in 0 .. Len(input)
          /\ err.kind \in {"SyntaxError", "OverflowError", "RangeError"}
          /\ err.kind = "SyntaxError" =>
                /\ err.cause \in SyntaxErrorCauses
                /\ Error(err) = "syntax error at position "
                                   \o Decimal(Position(err) + 1) \o ": "
                                   \o CauseText(err.cause)
          /\ err.kind = "OverflowError" =>
                Error(err) = "overflow error at position " \o Decimal(Position(err) + 1)
          /\ err.kind = "RangeError" =>
                Error(err) = "range error at position " \o Decimal(Position(err) + 1)
    \* TestSyntaxError_Error and TestOverflowError_Error
    /\ (TestCall(ParseModeMultiUnit, Millisecond) /\ input = << "1", "h", "1", "x" >>) =>
          Error(err) = "syntax error at position 4: invalid unit"
    /\ (TestCall(ParseModeMultiUnit, Millisecond) /\ input = << "x", "x", "1", "h" >>) =>
          Error(err) = "syntax error at position 1: invalid number"
    /\ (TestCall(ParseModeMultiUnit, Millisecond)
           /\ input = << "1", "h", "1", "m", "1", "h" >>) =>
          Error(err) = "syntax error at position 6: invalid unit order"
    /\ (TestCall(ParseModeSingleUnit, Millisecond)
           /\ input = << "1", "h", "1", "m", "1", "h" >>) =>
          Error(err) = "syntax error at position 3: unexpected characters in single unit mode"
    /\ (TestCall(ParseModeMultiUnit, Microsecond)
           /\ input = Numeral(Succ(MaxInt64Digits)) \o << "n", "s" >>) =>
          Error(err) = "overflow error at position 1"

C22_Witness ==
    /\ TestCall(ParseModeMultiUnit, Millisecond)
    /\ input = << "1", "h", "1", "x" >>
    /\ err.kind = "SyntaxError"
    /\ Position(err) = 3
    /\ Error(err) = "syntax error at position 4: invalid unit"

(***************************************************************************)
(* C23: ParseDuration is deterministic and free of side effects: what a    *)
(* call returns (duration, error kind, cause, position) is a function of   *)
(* its input, default unit, parse mode and checker alone, so a second call *)
(* with the same arguments returns the same; the cursor, the previous unit *)
(* and the running total that one call wrote are not seen by the next.     *)
(***************************************************************************)
Result == [duration |-> duration, err |-> err]

\* The locals at the entry of a call.
AtEntry ==
    /\ position = 0
    /\ totalDuration = Zero
    /\ prevUnit = Day
    /\ calls = << >>

LastCall == calls[Len(calls)]

\* How the checker is invoked, whatever values it is handed.
C24_InvocationOrder ==
    /\ Len(calls) <= iterations
    /\ \A i \in 1 .. Len(calls) - 1 :
          /\ calls[i].position < calls[i + 1].position
          /\ calls[i].result
    /\ (calls # << >> /\ ~LastCall.result) => pc = "L527"
    /\ InvokedForLast => pc \in {"L527", "L542", "L546", "loop"}
    /\ (Iterated /\ pc \in {"L499", "L501", "L512", "L517", "L523"}) => ~InvokedForLast
    /\ (Added /\ inRangeChecker # "nil") => InvokedForLast

\* The values it is handed, as the code has computed them: the product of
\* line 521 and the total before line 530.
C24_InvokedWithComputedValues ==
    InvokedForLast =>
        /\ LastCall.position = numStartPos
        /\ LastCall.value = compositeDuration
        /\ LastCall.totalSoFar = TotalBeforeLast
        /\ LastCall.result
              = InRange(inRangeChecker, numStartPos, compositeDuration, TotalBeforeLast)

\* C24 as it is stated: the values are the component's duration and the sum
\* of the durations of the components before it.
C24_CheckerInvocations ==
    /\ C24_InvocationOrder
    /\ InvokedForLast =>
          /\ LastCall.position = numStartPos
          /\ WideOf(LastCall.value) = ExactLast
          /\ WideOf(LastCall.totalSoFar) = ExactBeforeLast

\* The checker's log only grows, by the invocation of the iteration.
C24_LogGrows ==
    [][\/ calls' = calls
       \/ Len(calls') = Len(calls) + 1 /\ SubSeq(calls', 1, Len(calls)) = calls]_vars

(***************************************************************************)
(* C25: within one component the checks are made in the order number,      *)
(* unit, unit order, overflow, range checker, trailing input in SingleUnit *)
(* mode, and the first that fails decides the error.  A component whose    *)
(* unit is out of order yields SyntaxError InvalidUnitOrder also when its  *)
(* value times the multiplier would overflow or the checker would reject   *)
(* it, and the checker is not invoked for it.                              *)
(***************************************************************************)
C25_CheckOrder ==
    [][(pc = "loop" /\ position < Len(input)) =>
          LET num == consumeNumber(input, position)
              lexed == LexUnit(input, num.pos, defaultUnit)
              product == Mul(num.value, unitProperties[lexed.unit])
              end == IF lexed.pos > num.pos THEN lexed.pos ELSE num.pos
          IN  IF num.err = noNumberFound
              THEN pc' = "L499" /\ err'.cause = "InvalidNumber" /\ calls' = calls
              ELSE IF num.err = overflow
              THEN pc' = "L501" /\ err'.kind = "OverflowError" /\ calls' = calls
              ELSE IF ~lexed.ok
              THEN pc' = "L512" /\ err'.cause = "InvalidUnit" /\ calls' = calls
              ELSE IF position > 0 /\ lexed.unit >= prevUnit
              THEN pc' = "L517" /\ err'.cause = "InvalidUnitOrder" /\ calls' = calls
              ELSE IF IsNegative(product) \/ Less(Sub(MaxInt64, product), totalDuration)
              THEN pc' = "L523" /\ err'.kind = "OverflowError" /\ calls' = calls
              ELSE IF /\ inRangeChecker # "nil"
                      /\ ~InRange(inRangeChecker, position, product, totalDuration)
              THEN pc' = "L527" /\ err'.kind = "RangeError" /\ Len(calls') = Len(calls) + 1
              ELSE IF parseMode = ParseModeSingleUnit /\ end < Len(input)
              THEN /\ pc' = "L542"
                   /\ err'.cause = "UnexpectedCharactersInSingleUnitMode"
              ELSE pc' = "loop" /\ err' = nil]_vars

\* A component out of order whose product overflows and which the checker
\* would reject.
C25_Witness ==
    /\ pc = "L517"
    /\ err = newSyntaxErrorInvalidUnitOrder(unitStartPos)
    /\ Overflows(Composite(value, unit), totalDuration)
    /\ inRangeChecker # "nil"
    /\ ~InRange(inRangeChecker, numStartPos, Composite(value, unit), totalDuration)
    /\ ~InvokedForLast

(***************************************************************************)
(* C26: every error that ParseDuration returns carries a position p that   *)
(* is an index of a byte of the input, 0 <= p < len(input), for every      *)
(* input, default unit and parse mode; also for the InvalidUnitOrder of a  *)
(* trailing number without a unit that takes the default unit ("1ms5"      *)
(* with the default millisecond).  The caret that the command prints is    *)
(* then beneath a character of the input it echoes.                        *)
(***************************************************************************)
C26_PositionIndexesInput ==
    Failed => (0 <= Position(err) /\ Position(err) < Len(input))

\* C26 as the code has it: the position is at most len(input), and it is
\* len(input) only for InvalidUnitOrder on a trailing number without a unit.
C26_PositionWithinOrAtEnd ==
    Failed =>
        /\ 0 <= Position(err)
        /\ Position(err) <= Len(input)
        /\ Position(err) = Len(input) =>
              /\ pc = "L517"
              /\ err = newSyntaxErrorInvalidUnitOrder(numEndPos)
              /\ numEndPos = Len(input)
              /\ unit = defaultUnit

\* "1ms5" with the default unit millisecond: InvalidUnitOrder at offset 4.
C26_PastTheEnd ==
    /\ Failed
    /\ input = << "1", "m", "s", "5" >>
    /\ defaultUnit = Millisecond
    /\ err = newSyntaxErrorInvalidUnitOrder(Len(input))

(***************************************************************************)
(* C27: every input that ParseDuration accepts in MultiUnit mode consists  *)
(* of at most six components whose units strictly decrease from the first  *)
(* to the last, and a number without a unit can only be the last           *)
(* component: a run of digits that is followed by a further character is   *)
(* accepted only if that character starts a recognised unit symbol.        *)
(***************************************************************************)
\* The number of units: day, hour, minute, second, millisecond, microsecond.
NumUnits == Cardinality(Units)

\* The character after the digits of the last iteration starts a unit symbol.
UnitFollowsNumber ==
    /\ numEndPos < Len(input)
    /\ \E u \in Units : At(input, numEndPos) = Symbol[u][1]

C27_Accepted ==
    /\ (pc = "L546" /\ parseMode = ParseModeMultiUnit) =>
          /\ iterations <= NumUnits
          /\ Len(calls) <= NumUnits
    \* every component that is added either ends the input with its digits,
    \* and then takes the default unit, or has a unit symbol after them
    /\ (parseMode = ParseModeMultiUnit /\ Added /\ pc # "L542") =>
          /\ iterations <= NumUnits
          /\ numEndPos = Len(input) \/ UnitFollowsNumber
          /\ numEndPos = Len(input) => (unit = defaultUnit /\ position = Len(input))
          /\ numEndPos < Len(input) => unitEndPos > numEndPos

\* Every component that is added after the first has a unit below the unit
\* of the component before it.
C27_UnitsDecrease ==
    [][(parseMode = ParseModeMultiUnit /\ pc = "loop" /\ pc' = "loop" /\ position > 0)
          => unit' < unit]_vars

\* C27: accepted inputs have at most six components, of strictly decreasing
\* units, and a number without a unit only as the last of them.
C27_AcceptedShape == []C27_Accepted /\ C27_UnitsDecrease

\* "1d3h30m45s100ms200us": six components.
C27_Witness ==
    /\ pc = "L546"
    /\ parseMode = ParseModeMultiUnit
    /\ iterations = NumUnits
    /\ err = nil

(***************************************************************************)
(* C28: when the duration is read from standard input, the outcome of the  *)
(* command is that of the whole content without its trailing newlines:     *)
(* content longer than the cap of 256 bytes is rejected with exit code 1,  *)
(* and is not cut to its first 256 bytes and parsed, so that a conversion  *)
(* of a prefix of an over-long input is never reported as a success.       *)
(***************************************************************************)
WholeContent == TrimRight(stdin)

C28_OverLongStdinRejected ==
    /\ source = "stdin" => (Len(stdin) <= maxBytes => input = WholeContent)
    /\ (Done /\ source = "stdin" /\ Len(WholeContent) > maxBytes) =>
          /\ ExitCode = 1
          /\ Stdout = << >>

\* C28 as the code has it: what is parsed is the first 256 bytes of the
\* content without the newlines they end in, and nothing tells the cut.
C28_StdinIsCut ==
    source = "stdin" =>
        /\ input = TrimRight(SubSeq(stdin, 1, IF Len(stdin) < maxBytes THEN Len(stdin) ELSE maxBytes))
        /\ Len(input) <= maxBytes
        /\ Done => Result = ParseDuration(input, Millisecond, ParseModeMultiUnit, "withinMaxTimeout")

\* 254 zeros, "1d" and then "x": 257 bytes, converted as one day.
C28_PrefixConverted ==
    /\ Done
    /\ source = "stdin"
    /\ stdin = Zeros(maxBytes - 2) \o << "1", "d", "x" >>
    /\ ExitCode = 0
    /\ ~printHuman
    /\ Stdout = << "86400000ms" >>

(***************************************************************************)
(* C29: formatDuration returns a non-empty string for every duration that  *)
(* is not negative: "0ms" for zero, and otherwise the days, hours,         *)
(* minutes, seconds and milliseconds, in this order, each only if its      *)
(* count is above zero and without padding.  So every successful run of    *)
(* the command with -h prints a line that names a unit, also for an        *)
(* accepted input below one millisecond such as "500us".                   *)
(***************************************************************************)
Succeeded == Done /\ err = nil

C29_FormatNonEmpty ==
    Succeeded =>
        /\ formatDuration(duration) # << >>
        /\ printHuman => (Len(Stdout) = 1 /\ Stdout[1] # "")

\* C29 as the code has it: the string is empty exactly for the durations
\* above zero and below one millisecond.
C29_EmptyBelowMillisecond ==
    Succeeded =>
        /\ formatDuration(duration) = << >>
              <=> (duration # Zero /\ Milliseconds(duration) = Zero)
        /\ duration = Zero => formatDuration(duration) = << "0", "m", "s" >>
        /\ input = MaxTimeoutInput =>
              String(formatDuration(duration)) = "24d20h31m23s647ms"

\* "500us" with -h: an empty line.
C29_EmptyLine ==
    /\ Succeeded
    /\ source = "args"
    /\ printHuman
    /\ input = << "5", "0", "0", "u", "s" >>
    /\ Stdout = << "" >>

(***************************************************************************)
(* C30: the earlier three-argument ParseDuration of README.md, which       *)
(* parses each number as a 32-bit integer and tests                        *)
(* newTotal > MaxTimeout - segmentDuration, returns on success a duration  *)
(* d with 0 <= d <= MaxTimeout (2147483647 ms): never a negative duration  *)
(* and never one above HAProxy's maximum, for every input, also for large  *)
(* counts of days or hours such as "110000d".                              *)
(***************************************************************************)
ReadmeSucceeded == pc = "R498"

C30_ReadmeWithinMaxTimeout ==
    ReadmeSucceeded =>
        /\ ~IsNegative(duration)
        /\ LessEq(duration, MaxTimeout)

\* C30 where the sum is right: a result that is the exact sum of the
\* components and not negative is within the limit, and every input whose
\* exact sum is within the limit returns that sum, if it returns a duration.
C30_WithinWhenExact ==
    /\ (ReadmeSucceeded /\ WideOf(duration) = exactTotal /\ ~IsNegative(duration)) =>
          LessEq(duration, MaxTimeout)
    /\ (ReadmeSucceeded /\ ~ExceedsMaxTimeout(exactTotal)) =>
          /\ WideOf(duration) = exactTotal
          /\ ~IsNegative(duration)
          /\ LessEq(duration, MaxTimeout)
    /\ pc \in ReadmeErrorReturns => duration = Zero

\* "110000d": accepted, with a negative duration.
C30_NegativeResult ==
    /\ ReadmeSucceeded
    /\ input = Numeral(<< 1, 1, 0, 0, 0, 0 >>) \o << "d" >>
    /\ err = nil
    /\ IsNegative(duration)
==========================================================================
